---------------------------- MODULE Spec2Model ----------------------------
(***************************************************************************)
(* A model of the front end of the Stellar language (stellar-core):        *)
(* the character cursor, the string interner, the scanner, the token       *)
(* stream with its cursor, and the recursive-descent / precedence-climbing *)
(* parser.                                                                 *)
(*                                                                         *)
(* A character is a one-character string; a Rust String or &str is a       *)
(* sequence of characters.  Option<T> is a sequence of length 0 or 1.      *)
(* A Rust enum value is a record with a "type" field naming the variant.   *)
(***************************************************************************)
EXTENDS Integers, Sequences, FiniteSets, TLC

VARIABLES
    source,      \* scan: the source text (Cursor.source)
    cursor,      \* scan: the character cursor [input, location]
    stream,      \* the TokenStream (built by scan, consumed by parse)
    scanned,     \* scan: the outcome of scan, [type |-> "Running" | "Ok" | "Err" | "Panic", ...]
    interner,    \* STRING_INTERNER: the global table, key k resolves to interner[k]
    interned,    \* the StringId::new calls made so far, [string, id] each
    tcursor,     \* Option<TokenStreamCursor>: <<>> or <<[location |-> n]>>
    got,         \* the value returned by the last TokenStreamCursor call
    stack,       \* parse: the call stack, innermost frame first
    ret,         \* parse: the value returned by the call that just ended
    parsed,      \* parse: the outcome of parse, [type |-> "Running" | "Ok" | "Err" | "Panic", ...]
    threads,     \* the threads that call StringId::new: thread |-> [pc, string, key]
    lazy,        \* the LazyLock of STRING_INTERNER: [state, created]
    returned     \* the [string, id] pairs that StringId::new has returned to some thread

vars == <<source, cursor, stream, scanned, interner, interned, tcursor, got, stack, ret, parsed,
          threads, lazy, returned>>

-----------------------------------------------------------------------------
(* Option *)

Some(x) == <<x>>
None == <<>>

(***************************************************************************)
(* Characters.  The model's alphabet holds a few members of every class    *)
(* the scanner distinguishes; "é" is a two-byte alphabetic character and   *)
(* "²" a two-byte character that is numeric but no ASCII digit.            *)
(***************************************************************************)
NL == "\n"
QUOTE == "\""
BACKSLASH == "\\"
TAB == "\t"
CR == "\r"

AsciiDigits == {"0", "1", "2", "3", "4", "5", "6", "7", "8", "9"}
AsciiLetters == {"a", "b", "c", "d", "e", "f", "g", "h", "i", "j", "k", "l", "m",
                 "n", "o", "p", "q", "r", "s", "t", "u", "v", "w", "x", "y", "z"}

is_whitespace(c) == c \in {" ", TAB, NL, CR}
is_alphabetic(c) == c \in AsciiLetters \cup {"é"}
is_numeric(c) == c \in AsciiDigits \cup {"²"}
is_alphanumeric(c) == is_alphabetic(c) \/ is_numeric(c)
len_utf8(c) == IF c = "€" THEN 3 ELSE IF c \in {"é", "²"} THEN 2 ELSE 1

DigitValue(c) ==
    CASE c = "0" -> 0 [] c = "1" -> 1 [] c = "2" -> 2 [] c = "3" -> 3 [] c = "4" -> 4
      [] c = "5" -> 5 [] c = "6" -> 6 [] c = "7" -> 7 [] c = "8" -> 8 [] c = "9" -> 9

-----------------------------------------------------------------------------
(* Location and Span *)

Location_new(line, column, index) == [line |-> line, column |-> column, index |-> index]
Location_sof == Location_new(1, 0, 0)
Span_new(start, end) == [start |-> start, end |-> end]

-----------------------------------------------------------------------------
(* The character cursor: input is the number of characters consumed. *)

Cursor_new == [input |-> 0, location |-> Location_sof]

Cursor_peek(src, c) == IF c.input < Len(src) THEN Some(src[c.input + 1]) ELSE None

(* next that counts characters, not bytes, in the index *)
Cursor_next_CharIndex(src, c) ==
    IF c.input < Len(src)
    THEN LET next_char == src[c.input + 1] IN
         [input |-> c.input + 1,
          location |->
             IF next_char = NL
             THEN Location_new(c.location.line + 1, 0, c.location.index + 1)
             ELSE Location_new(c.location.line, c.location.column + 1, c.location.index + 1)]
    ELSE c

(* next that goes on counting the column across a newline *)
Cursor_next_ColumnKept(src, c) ==
    IF c.input < Len(src)
    THEN LET next_char == src[c.input + 1] IN
         [input |-> c.input + 1,
          location |->
             IF next_char = NL
             THEN Location_new(c.location.line + 1, c.location.column + 1,
                               c.location.index + len_utf8(next_char))
             ELSE Location_new(c.location.line, c.location.column + 1,
                               c.location.index + len_utf8(next_char))]
    ELSE c

Cursor_next(src, c) ==
    IF c.input < Len(src)
    THEN LET next_char == src[c.input + 1] IN
         [input |-> c.input + 1,
          location |->
             IF next_char = NL
             THEN Location_new(c.location.line + 1, 0,
                               c.location.index + len_utf8(next_char))
             ELSE Location_new(c.location.line, c.location.column + 1,
                               c.location.index + len_utf8(next_char))]
    ELSE c

-----------------------------------------------------------------------------
(***************************************************************************)
(* The string interner.  STRING_INTERNER is a lasso ThreadedRodeo: keys    *)
(* are handed out in order of first insertion and never removed.           *)
(***************************************************************************)

KeyOf(tbl, s) == CHOOSE k \in 1..Len(tbl) : tbl[k] = s

(* get_or_intern without the lookup: every call makes a new key *)
get_or_intern_NoLookup(tbl, s) == [key |-> Len(tbl) + 1, table |-> Append(tbl, s)]

(* get_or_intern on a table of two slots that evicts the newest entry *)
get_or_intern_Evicting(tbl, s) ==
    IF \E k \in 1..Len(tbl) : tbl[k] = s
    THEN [key |-> CHOOSE k \in 1..Len(tbl) : tbl[k] = s, table |-> tbl]
    ELSE IF Len(tbl) >= 2
    THEN [key |-> Len(tbl), table |-> [tbl EXCEPT ![Len(tbl)] = s]]
    ELSE [key |-> Len(tbl) + 1, table |-> Append(tbl, s)]

get_or_intern(tbl, s) ==
    IF \E k \in 1..Len(tbl) : tbl[k] = s
    THEN [key |-> KeyOf(tbl, s), table |-> tbl]
    ELSE [key |-> Len(tbl) + 1, table |-> Append(tbl, s)]

StringId_new(tbl, s) == get_or_intern(tbl, s)

StringId_resolve(tbl, id) == tbl[id]

-----------------------------------------------------------------------------
(* Tokens *)

Token_Keyword(keyword, span) == [type |-> "Keyword", keyword |-> keyword, span |-> span]
Token_Identifier(name, span) == [type |-> "Identifier", name |-> name, span |-> span]
Token_Operator(operator, span) == [type |-> "Operator", operator |-> operator, span |-> span]
Token_Punctuator(punctuator, span) ==
    [type |-> "Punctuator", punctuator |-> punctuator, span |-> span]
Token_Float(value, span) == [type |-> "Float", value |-> value, span |-> span]
Token_Integer(value, span) == [type |-> "Integer", value |-> value, span |-> span]
Token_Bool(value, span) == [type |-> "Bool", value |-> value, span |-> span]
Token_String(value, span) == [type |-> "String", value |-> value, span |-> span]
Token_EndOfLine(span) == [type |-> "EndOfLine", span |-> span]
Token_EndOfFile(location) == [type |-> "EndOfFile", location |-> location]

NoToken == [type |-> "NoToken"]
NoError == [type |-> "NoError"]

is_end_of_file(token) == token.type = "EndOfFile"
is_end_of_line(token) == token.type = "EndOfLine"
is_keyword(token, keyword) == token.type = "Keyword" /\ token.keyword = keyword
is_punctuator(token, punctuator) ==
    token.type = "Punctuator" /\ token.punctuator = punctuator
is_operator(token, operator) == token.type = "Operator" /\ token.operator = operator

(* Spanned for Token: EndOfFile gets a one-byte span at its location. *)
Token_span(token) ==
    CASE token.type = "EndOfFile" ->
            Span_new(token.location,
                     Location_new(token.location.line, token.location.column + 1,
                                  token.location.index + 1))
      [] token.type = "NoToken" -> Span_new(Location_sof, Location_sof)  \* after a panic: unused
      [] OTHER -> token.span

-----------------------------------------------------------------------------
(***************************************************************************)
(* str::parse.  An i64 or f64 value is kept as its decimal digits (most    *)
(* significant first, no leading zeros), so that values beyond the model   *)
(* checker's own integers keep their 64-bit range check.                   *)
(***************************************************************************)

I64_MAX == <<9, 2, 2, 3, 3, 7, 2, 0, 3, 6, 8, 5, 4, 7, 7, 5, 8, 0, 7>>

RECURSIVE StripLeadingZeros(_)
StripLeadingZeros(ds) ==
    IF Len(ds) > 1 /\ ds[1] = 0 THEN StripLeadingZeros(Tail(ds)) ELSE ds

RECURSIVE StripTrailingZeros(_)
StripTrailingZeros(ds) ==
    IF Len(ds) > 0 /\ ds[Len(ds)] = 0
    THEN StripTrailingZeros(SubSeq(ds, 1, Len(ds) - 1))
    ELSE ds

Digits(lexeme) == [i \in 1..Len(lexeme) |-> DigitValue(lexeme[i])]

(* a > b for digit sequences of the same length *)
RECURSIVE DigitsGreater(_, _)
DigitsGreater(a, b) ==
    IF a = <<>> THEN FALSE
    ELSE IF a[1] # b[1] THEN a[1] > b[1]
    ELSE DigitsGreater(Tail(a), Tail(b))

ExceedsI64(ds) ==
    \/ Len(ds) > Len(I64_MAX)
    \/ Len(ds) = Len(I64_MAX) /\ DigitsGreater(ds, I64_MAX)

(* lexeme.parse::<i64>(): Some(value), or None for Err(ParseIntError) *)
parse_i64(lexeme) ==
    IF lexeme = <<>> \/ \E i \in 1..Len(lexeme) : lexeme[i] \notin AsciiDigits
    THEN None
    ELSE LET ds == StripLeadingZeros(Digits(lexeme)) IN
         IF ExceedsI64(ds) THEN None ELSE Some(ds)

DotAt(lexeme) == CHOOSE i \in 1..Len(lexeme) : lexeme[i] = "."

(* lexeme.parse::<f64>() for a lexeme of digits and one dot: Some([int, frac]) *)
parse_f64(lexeme) ==
    IF \/ \A i \in 1..Len(lexeme) : lexeme[i] # "."
       \/ \E i \in 1..Len(lexeme) : lexeme[i] \notin AsciiDigits \cup {"."}
       \/ Len(lexeme) < 2
    THEN None
    ELSE LET d == DotAt(lexeme) IN
         Some([int |-> StripLeadingZeros(
                          IF d = 1 THEN <<0>> ELSE Digits(SubSeq(lexeme, 1, d - 1))),
               frac |-> StripTrailingZeros(Digits(SubSeq(lexeme, d + 1, Len(lexeme))))])

-----------------------------------------------------------------------------
(***************************************************************************)
(* The scanner.  Every scan function takes the source, the cursor and the  *)
(* interner table and returns a result record: what it returned (a token,  *)
(* a ScanError, or a panic that unwinds out of scan) and the cursor and    *)
(* table it leaves behind.                                                 *)
(***************************************************************************)

ScanOk(token, c, tbl) ==
    [type |-> "Ok", token |-> token, error |-> NoError, cursor |-> c, table |-> tbl]
ScanErr(error, c, tbl) ==
    [type |-> "Err", token |-> NoToken, error |-> error, cursor |-> c, table |-> tbl]
ScanPanic(c, tbl) ==
    [type |-> "Panic", token |-> NoToken, error |-> NoError, cursor |-> c, table |-> tbl]

UnexpectedCharacter(character, span) ==
    [type |-> "UnexpectedCharacter", character |-> character, span |-> span]
InvalidEscapeSequence(character, span) ==
    [type |-> "InvalidEscapeSequence", character |-> character, span |-> span]
UnterminatedString(span) == [type |-> "UnterminatedString", span |-> span]

(* the comment loop stopping in front of the line break *)
RECURSIVE SkipComment_KeepNewline(_, _)
SkipComment_KeepNewline(src, c) ==
    LET p == Cursor_peek(src, c) IN
    IF p = None THEN c
    ELSE IF p[1] = NL THEN c
    ELSE SkipComment_KeepNewline(src, Cursor_next(src, c))

(* while let Some(c) = cursor.next() { if c == '\n' { break } } *)
RECURSIVE SkipComment(_, _)
SkipComment(src, c) ==
    LET p == Cursor_peek(src, c) IN
    IF p = None THEN c
    ELSE IF p[1] = NL THEN Cursor_next(src, c)
    ELSE SkipComment(src, Cursor_next(src, c))

(* the loop that skips whitespace (but no line break) and comments *)
RECURSIVE SkipTrivia(_, _)
SkipTrivia(src, c) ==
    LET p == Cursor_peek(src, c) IN
    IF p = None THEN c
    ELSE IF is_whitespace(p[1]) /\ p[1] # NL THEN SkipTrivia(src, Cursor_next(src, c))
    ELSE IF p[1] = "#" THEN SkipTrivia(src, SkipComment(src, c))
    ELSE c

(* keyword_from_name that matches a keyword at the start of the name *)
keyword_from_name_ByPrefix(name) ==
    CASE Len(name) >= 4 /\ SubSeq(name, 1, 4) = <<"w", "i", "t", "h">> -> Some("With")
      [] Len(name) >= 4 /\ SubSeq(name, 1, 4) = <<"w", "a", "i", "t">> -> Some("Wait")
      [] Len(name) >= 4 /\ SubSeq(name, 1, 4) = <<"p", "l", "a", "y">> -> Some("Play")
      [] Len(name) >= 3 /\ SubSeq(name, 1, 3) = <<"l", "e", "t">> -> Some("Let")
      [] name = <<"s", "e", "q", "u", "e", "n", "c", "e">> -> Some("Sequence")
      [] name = <<"l", "o", "a", "d", "_", "s", "a", "m", "p", "l", "e">> -> Some("LoadSample")
      [] OTHER -> None

keyword_from_name(name) ==
    CASE name = <<"w", "i", "t", "h">> -> Some("With")
      [] name = <<"w", "a", "i", "t">> -> Some("Wait")
      [] name = <<"s", "e", "q", "u", "e", "n", "c", "e">> -> Some("Sequence")
      [] name = <<"p", "l", "a", "y">> -> Some("Play")
      [] name = <<"l", "e", "t">> -> Some("Let")
      [] name = <<"l", "o", "a", "d", "_", "s", "a", "m", "p", "l", "e">> -> Some("LoadSample")
      [] OTHER -> None

(* the loop of scan_name: the run of alphanumeric characters and '_' *)
RECURSIVE ScanNameRun(_, _, _)
ScanNameRun(src, c, name) ==
    LET p == Cursor_peek(src, c) IN
    IF p = None THEN [cursor |-> c, name |-> name]
    ELSE IF ~is_alphanumeric(p[1]) /\ p[1] # "_" THEN [cursor |-> c, name |-> name]
    ELSE ScanNameRun(src, Cursor_next(src, c), Append(name, p[1]))

scan_name(src, c, tbl) ==
    LET start == c.location
        run == ScanNameRun(src, c, <<>>)
        name == run.name
        span == Span_new(start, run.cursor.location)
    IN  IF name = <<"t", "r", "u", "e">> THEN ScanOk(Token_Bool(TRUE, span), run.cursor, tbl)
        ELSE IF name = <<"f", "a", "l", "s", "e">>
        THEN ScanOk(Token_Bool(FALSE, span), run.cursor, tbl)
        ELSE IF keyword_from_name(name) # None
        THEN ScanOk(Token_Keyword(keyword_from_name(name)[1], span), run.cursor, tbl)
        ELSE LET id == StringId_new(tbl, name) IN
             ScanOk(Token_Identifier(id.key, span), run.cursor, id.table)

(* the loop of scan_number_or_dot: numeric characters and at most one '.' *)
RECURSIVE ScanNumberRun(_, _, _)
ScanNumberRun(src, c, has_dot) ==
    LET p == Cursor_peek(src, c) IN
    IF p = None THEN [cursor |-> c, has_dot |-> has_dot]
    ELSE IF is_numeric(p[1]) THEN ScanNumberRun(src, Cursor_next(src, c), has_dot)
    ELSE IF p[1] = "." /\ ~has_dot THEN ScanNumberRun(src, Cursor_next(src, c), TRUE)
    ELSE [cursor |-> c, has_dot |-> has_dot]

scan_number_or_dot(src, c, tbl) ==
    LET start == c.location
        run == ScanNumberRun(src, c, FALSE)
        end == run.cursor.location
        lexeme == SubSeq(src, c.input + 1, run.cursor.input)
    IN  IF end.index - start.index = 1 /\ run.has_dot
        THEN ScanOk(Token_Punctuator("Dot", Span_new(start, end)), run.cursor, tbl)
        ELSE IF run.has_dot
        THEN IF parse_f64(lexeme) = None
             THEN ScanPanic(run.cursor, tbl)     \* unwrap() of an Err
             ELSE ScanOk(Token_Float(parse_f64(lexeme)[1], Span_new(start, end)),
                         run.cursor, tbl)
        ELSE IF parse_i64(lexeme) = None
             THEN ScanPanic(run.cursor, tbl)     \* unwrap() of an Err
             ELSE ScanOk(Token_Integer(parse_i64(lexeme)[1], Span_new(start, end)),
                         run.cursor, tbl)

(* the escapes without the quote *)
Escapes_NoQuote == {"n", "t", "r", BACKSLASH}

Escapes == {"n", "t", "r", QUOTE, BACKSLASH}

(* the escapes keeping the character after the backslash as it is *)
Unescape_Verbatim(c) == c

Unescape(c) ==
    CASE c = "n" -> NL [] c = "t" -> TAB [] c = "r" -> CR
      [] c = QUOTE -> QUOTE [] c = BACKSLASH -> BACKSLASH

(* the loop of scan_string, entered after the opening quote *)
RECURSIVE ScanStringRun(_, _, _, _, _)
ScanStringRun(src, c, start, content, tbl) ==
    LET p == Cursor_peek(src, c)
        c1 == Cursor_next(src, c)
    IN  IF p = None THEN ScanErr(UnterminatedString(Span_new(start, c.location)), c, tbl)
        ELSE IF p[1] = BACKSLASH
        THEN LET q == Cursor_peek(src, c1)
                 c2 == Cursor_next(src, c1)
             IN  IF q = None
                 THEN ScanErr(UnterminatedString(Span_new(start, c1.location)), c1, tbl)
                 ELSE IF q[1] \in Escapes
                 THEN ScanStringRun(src, c2, start, Append(content, Unescape(q[1])), tbl)
                 ELSE ScanErr(InvalidEscapeSequence(q[1], Span_new(start, c2.location)),
                              c2, tbl)
        ELSE IF p[1] = QUOTE
        THEN LET id == StringId_new(tbl, content) IN
             ScanOk(Token_String(id.key, Span_new(start, c1.location)), c1, id.table)
        ELSE ScanStringRun(src, c1, start, Append(content, p[1]), tbl)

scan_string(src, c, tbl) == ScanStringRun(src, Cursor_next(src, c), c.location, <<>>, tbl)

(* the macro with the arm of `-` laid out before the arm of `-=` *)
match_single_and_two_character_tokens_SingleFirst(char, src, c, start, tbl) ==
    LET p == Cursor_peek(src, c)
        c1 == Cursor_next(src, c)
        here == Span_new(start, c.location)
    IN  CASE char = "-" /\ FALSE ->
                ScanOk(Token_Operator("MinusEq", Span_new(start, c1.location)), c1, tbl)
          [] char = "+" /\ p = Some("=") ->
                ScanOk(Token_Operator("PlusEq", Span_new(start, c1.location)), c1, tbl)
          [] char = "=" /\ p = Some("=") ->
                ScanOk(Token_Operator("Eq", Span_new(start, c1.location)), c1, tbl)
          [] char = "-" -> ScanOk(Token_Operator("Minus", here), c, tbl)
          [] char = "+" /\ p # Some("=") -> ScanOk(Token_Operator("Plus", here), c, tbl)
          [] char = "*" -> ScanOk(Token_Operator("Star", here), c, tbl)
          [] char = "/" -> ScanOk(Token_Operator("Slash", here), c, tbl)
          [] char = "=" /\ p # Some("=") -> ScanOk(Token_Operator("Assign", here), c, tbl)
          [] char = "{" -> ScanOk(Token_Punctuator("LeftBrace", here), c, tbl)
          [] char = "}" -> ScanOk(Token_Punctuator("RightBrace", here), c, tbl)
          [] char = "[" -> ScanOk(Token_Punctuator("LeftBracket", here), c, tbl)
          [] char = "]" -> ScanOk(Token_Punctuator("RightBracket", here), c, tbl)
          [] char = "(" -> ScanOk(Token_Punctuator("LeftParen", here), c, tbl)
          [] char = ")" -> ScanOk(Token_Punctuator("RightParen", here), c, tbl)
          [] char = ":" -> ScanOk(Token_Punctuator("Colon", here), c, tbl)
          [] char = "." -> ScanOk(Token_Punctuator("Dot", here), c, tbl)
          [] char = "," -> ScanOk(Token_Punctuator("Comma", here), c, tbl)
          [] OTHER -> ScanErr(UnexpectedCharacter(char, here), c, tbl)

(* the macro reporting an unexpected character with an empty span at its start *)
match_single_and_two_character_tokens_BeforeConsume(char, src, c, start, tbl) ==
    LET p == Cursor_peek(src, c)
        c1 == Cursor_next(src, c)
        here == Span_new(start, c.location)
    IN  CASE char = "-" /\ p = Some("=") ->
                ScanOk(Token_Operator("MinusEq", Span_new(start, c1.location)), c1, tbl)
          [] char = "+" /\ p = Some("=") ->
                ScanOk(Token_Operator("PlusEq", Span_new(start, c1.location)), c1, tbl)
          [] char = "=" /\ p = Some("=") ->
                ScanOk(Token_Operator("Eq", Span_new(start, c1.location)), c1, tbl)
          [] char = "-" /\ p # Some("=") -> ScanOk(Token_Operator("Minus", here), c, tbl)
          [] char = "+" /\ p # Some("=") -> ScanOk(Token_Operator("Plus", here), c, tbl)
          [] char = "*" -> ScanOk(Token_Operator("Star", here), c, tbl)
          [] char = "/" -> ScanOk(Token_Operator("Slash", here), c, tbl)
          [] char = "=" /\ p # Some("=") -> ScanOk(Token_Operator("Assign", here), c, tbl)
          [] char = "{" -> ScanOk(Token_Punctuator("LeftBrace", here), c, tbl)
          [] char = "}" -> ScanOk(Token_Punctuator("RightBrace", here), c, tbl)
          [] char = "[" -> ScanOk(Token_Punctuator("LeftBracket", here), c, tbl)
          [] char = "]" -> ScanOk(Token_Punctuator("RightBracket", here), c, tbl)
          [] char = "(" -> ScanOk(Token_Punctuator("LeftParen", here), c, tbl)
          [] char = ")" -> ScanOk(Token_Punctuator("RightParen", here), c, tbl)
          [] char = ":" -> ScanOk(Token_Punctuator("Colon", here), c, tbl)
          [] char = "." -> ScanOk(Token_Punctuator("Dot", here), c, tbl)
          [] char = "," -> ScanOk(Token_Punctuator("Comma", here), c, tbl)
          [] OTHER -> ScanErr(UnexpectedCharacter(char, Span_new(start, start)), c, tbl)

(* match_single_and_two_character_tokens!(char, cursor, start, ...), entered
   after char was consumed: the arms in the order the macro lays them out *)
match_single_and_two_character_tokens(char, src, c, start, tbl) ==
    LET p == Cursor_peek(src, c)
        c1 == Cursor_next(src, c)
        here == Span_new(start, c.location)
    IN  CASE char = "-" /\ p = Some("=") ->
                ScanOk(Token_Operator("MinusEq", Span_new(start, c1.location)), c1, tbl)
          [] char = "+" /\ p = Some("=") ->
                ScanOk(Token_Operator("PlusEq", Span_new(start, c1.location)), c1, tbl)
          [] char = "=" /\ p = Some("=") ->
                ScanOk(Token_Operator("Eq", Span_new(start, c1.location)), c1, tbl)
          [] char = "-" /\ p # Some("=") -> ScanOk(Token_Operator("Minus", here), c, tbl)
          [] char = "+" /\ p # Some("=") -> ScanOk(Token_Operator("Plus", here), c, tbl)
          [] char = "*" -> ScanOk(Token_Operator("Star", here), c, tbl)
          [] char = "/" -> ScanOk(Token_Operator("Slash", here), c, tbl)
          [] char = "=" /\ p # Some("=") -> ScanOk(Token_Operator("Assign", here), c, tbl)
          [] char = "{" -> ScanOk(Token_Punctuator("LeftBrace", here), c, tbl)
          [] char = "}" -> ScanOk(Token_Punctuator("RightBrace", here), c, tbl)
          [] char = "[" -> ScanOk(Token_Punctuator("LeftBracket", here), c, tbl)
          [] char = "]" -> ScanOk(Token_Punctuator("RightBracket", here), c, tbl)
          [] char = "(" -> ScanOk(Token_Punctuator("LeftParen", here), c, tbl)
          [] char = ")" -> ScanOk(Token_Punctuator("RightParen", here), c, tbl)
          [] char = ":" -> ScanOk(Token_Punctuator("Colon", here), c, tbl)
          [] char = "." -> ScanOk(Token_Punctuator("Dot", here), c, tbl)
          [] char = "," -> ScanOk(Token_Punctuator("Comma", here), c, tbl)
          [] OTHER -> ScanErr(UnexpectedCharacter(char, here), c, tbl)

scan_next_token(src, c0, tbl) ==
    LET c == SkipTrivia(src, c0)
        p == Cursor_peek(src, c)
    IN  IF p = None THEN ScanOk(Token_EndOfFile(c.location), c, tbl)
        ELSE IF p[1] = NL
        THEN ScanOk(Token_EndOfLine(Span_new(c.location, Cursor_next(src, c).location)),
                    Cursor_next(src, c), tbl)
        ELSE IF p[1] = QUOTE THEN scan_string(src, c, tbl)
        ELSE IF is_alphabetic(p[1]) \/ p[1] = "_" THEN scan_name(src, c, tbl)
        ELSE IF is_numeric(p[1]) \/ p[1] = "." THEN scan_number_or_dot(src, c, tbl)
        ELSE match_single_and_two_character_tokens(p[1], src, Cursor_next(src, c),
                                                   c.location, tbl)

(* TokenStream::push *)
push(s, token) == Append(s, token)

(* the loop of scan leaving at EndOfFile before the push *)
ScanLoop_BreakBeforePush ==
    /\ scanned.type = "Running"
    /\ LET r == scan_next_token(source, cursor, interner) IN
       /\ cursor' = r.cursor
       /\ interner' = r.table
       /\ IF r.type = "Ok"
          THEN /\ stream' = IF is_end_of_file(r.token) THEN stream ELSE push(stream, r.token)
               /\ scanned' = IF is_end_of_file(r.token)
                             THEN [type |-> "Ok", stream |-> stream']
                             ELSE scanned
          ELSE /\ stream' = stream
               /\ scanned' = IF r.type = "Err"
                             THEN [type |-> "Err", error |-> r.error]
                             ELSE [type |-> "Panic"]
    /\ UNCHANGED <<source, interned, tcursor, got, stack, ret, parsed,
                 threads, lazy, returned>>

(* One iteration of the loop of scan. *)
ScanLoop ==
    /\ scanned.type = "Running"
    /\ LET r == scan_next_token(source, cursor, interner) IN
       /\ cursor' = r.cursor
       /\ interner' = r.table
       /\ IF r.type = "Ok"
          THEN /\ stream' = push(stream, r.token)
               /\ scanned' = IF is_end_of_file(r.token)
                             THEN [type |-> "Ok", stream |-> stream']
                             ELSE scanned
          ELSE /\ stream' = stream
               /\ scanned' = IF r.type = "Err"
                             THEN [type |-> "Err", error |-> r.error]
                             ELSE [type |-> "Panic"]
    /\ UNCHANGED <<source, interned, tcursor, got, stack, ret, parsed,
                 threads, lazy, returned>>

-----------------------------------------------------------------------------
(* Bounds and inputs of the scanner's specification *)

MaxSourceLen == 3

ScanChars == {"a", "_", "1", "²", ".", NL, " ", "#", QUOTE, BACKSLASH, "=", "+", "!"}

RECURSIVE SeqsUpTo(_, _)
SeqsUpTo(S, n) ==
    IF n = 0 THEN {<<>>}
    ELSE LET shorter == SeqsUpTo(S, n - 1) IN
         shorter \cup {Append(s, x) : s \in {q \in shorter : Len(q) = n - 1}, x \in S}

(* 9223372036854775807 (i64::MAX), 9223372036854775808, and 3 3.2. *)
SourceI64Max ==
    <<"9", "2", "2", "3", "3", "7", "2", "0", "3", "6", "8", "5", "4", "7", "7", "5", "8",
      "0", "7">>
SourceI64Over ==
    <<"9", "2", "2", "3", "3", "7", "2", "0", "3", "6", "8", "5", "4", "7", "7", "5", "8",
      "0", "8">>
SourceNumberAndDot == <<"3", " ", "3", ".", "2", ".">>

(* names: the keywords, the booleans, and runs that only resemble them *)
SourceNames ==
    { <<"w", "a", "i", "t", " ", "t", "i", "m", "e">>,
      <<"w", "i", "t", "h">>, <<"w", "a", "i", "t">>, <<"p", "l", "a", "y">>,
      <<"s", "e", "q", "u", "e", "n", "c", "e">>, <<"l", "e", "t">>,
      <<"l", "o", "a", "d", "_", "s", "a", "m", "p", "l", "e">>,
      <<"t", "r", "u", "e">>, <<"f", "a", "l", "s", "e">>, <<"t", "r", "u", "e", "x">>,
      <<"w", "a", "i", "t", "i", "n", "g">>, <<"l", "e", "t", "s">>,
      <<"_", "w", "a", "i", "t">>, <<"l", "e", "t", " ", "w", "i", "t", "é">> }

(* operators: every run of operator characters, a name and a blank *)
MaxOperatorsLen == 3
OperatorChars == {"-", "+", "*", "/", "=", "a", " "}
SourceOperators == SeqsUpTo(OperatorChars, MaxOperatorsLen)

(* characters that start no token, alone and after other tokens *)
SourceUnexpected ==
    { <<"!">>, <<"€">>, <<"a", " ", "€", "a">>, <<"1", NL, "@", "1">>, <<"-", "=", "?">>,
      <<"#", "!", NL, "a", "!">>, <<"[", "1", "]", "~">> }

(* string literals: each escape, a raw newline, invalid escapes, and the
   string of the scanner's test, "\"Hello,\n \t world\"" *)
SourceStrings ==
    { <<QUOTE, BACKSLASH, QUOTE, "H", "e", "l", "l", "o", ",", BACKSLASH, "n", " ", BACKSLASH, "t",
        " ", "w", "o", "r", "l", "d", BACKSLASH, QUOTE, QUOTE>>,
      <<QUOTE, BACKSLASH, "n", QUOTE>>,
      <<QUOTE, BACKSLASH, "t", QUOTE>>,
      <<QUOTE, BACKSLASH, "r", QUOTE>>,
      <<QUOTE, BACKSLASH, BACKSLASH, QUOTE>>,
      <<QUOTE, BACKSLASH, QUOTE, QUOTE>>,
      <<QUOTE, "a", NL, "b", QUOTE>>,
      <<QUOTE, BACKSLASH, "x", QUOTE>>,
      <<QUOTE, BACKSLASH, " ", QUOTE>>,
      <<QUOTE, "a", BACKSLASH, "é", QUOTE>>,
      <<QUOTE, "a", QUOTE, " ", QUOTE, BACKSLASH, BACKSLASH, "a", QUOTE>>,
      <<QUOTE, "é", BACKSLASH, QUOTE, QUOTE, " ", "a">>,
      <<QUOTE, "n", BACKSLASH, "t", "r", QUOTE>>,
      <<QUOTE, BACKSLASH, "n", "a">>,
      <<"a", " ", QUOTE, NL, QUOTE, " ", "1">>,
      <<QUOTE, BACKSLASH, BACKSLASH, BACKSLASH, QUOTE>> }

(* lines: line breaks, other whitespace and comments around names *)
SourceLines ==
    { <<"a", " ", "#", " ", "c", NL, "b">>, <<"a", NL, "b">>, <<"a", TAB, CR, " ", "b">>,
      <<"a", NL, NL, "#", NL, NL, "b">>, <<"#", " ", "c">>, <<"a", CR, NL, "b", NL>>,
      <<"#", "#", NL, "#", NL>>, <<"a", " ", "#", QUOTE, NL, QUOTE, "#", NL, QUOTE, NL>> }

TestSources ==
    {SourceI64Max, SourceI64Over, SourceNumberAndDot} \cup SourceNames
        \cup SourceOperators \cup SourceUnexpected \cup SourceStrings \cup SourceLines

ScanSources == SeqsUpTo(ScanChars, MaxSourceLen) \cup TestSources

Idle == [type |-> "Idle"]
NoThreads == <<>>
Uninit == [state |-> "Uninit", created |-> 0]
Running == [type |-> "Running"]
NoCall == [call |-> "none"]

InitScan ==
    /\ source \in ScanSources
    /\ cursor = Cursor_new
    /\ stream = <<>>
    /\ scanned = Running
    /\ interner = <<>>
    /\ interned = <<>>
    /\ tcursor = None
    /\ got = NoCall
    /\ stack = <<>>
    /\ ret = Idle
    /\ parsed = Idle
    /\ threads = NoThreads
    /\ lazy = Uninit
    /\ returned = {}

NextScan == ScanLoop

SpecScan == InitScan /\ [][NextScan]_vars

-----------------------------------------------------------------------------
(***************************************************************************)
(* TokenStream and TokenStreamCursor.  An index is 0-based as in the code; *)
(* a call returns [type |-> "Ok", token |-> t], or [type |-> "Panic"] when *)
(* the slice index is out of bounds.                                       *)
(***************************************************************************)

Returned(token) == [type |-> "Ok", token |-> token]
Panicked == [type |-> "Panic"]

TokenStream_get(s, index) ==
    IF index > Len(s)
    THEN IF s = <<>> THEN Returned(Token_EndOfFile(Location_sof))
         ELSE Returned(s[Len(s)])
    ELSE IF index < Len(s) THEN Returned(s[index + 1])
    ELSE Panicked                  \* self.0[index] with index = len

(* into_cursor that only refuses the empty stream *)
into_cursor_EmptyOnly(s) == IF s = <<>> THEN None ELSE Some([location |-> 0])

into_cursor(s) ==
    IF s = <<>> \/ ~is_end_of_file(s[Len(s)]) THEN None ELSE Some([location |-> 0])

(* the token a call returns; next also moves the cursor, see Advance *)
TokenStreamCursor_next(s, tc) == TokenStream_get(s, (tc.location + 1) - 1)
TokenStreamCursor_peek(s, tc) == TokenStream_get(s, tc.location)
Advance(tc) == [location |-> tc.location + 1]

-----------------------------------------------------------------------------
(***************************************************************************)
(* Token streams for the specifications of the token cursor and of the     *)
(* parser: StreamOf(ls) is the stream scan yields for the lexemes ls       *)
(* written on one line with one space between them ("\n" is the line       *)
(* break; the identifiers a, b, c have the keys 1, 2, 3).  "!" stands for  *)
(* Operator::Exclamation, which only a hand-built stream holds.            *)
(***************************************************************************)

LexemeWidth(l) ==
    CASE l \in {"play", "wait", "with", "true"} -> 4
      [] l = "sequence" -> 8
      [] l = "load_sample" -> 11
      [] l \in {"let", "2.5"} -> 3
      [] l \in {"+=", "-=", "=="} -> 2
      [] OTHER -> 1

LexemeToken(l, span) ==
    CASE l = "play" -> Token_Keyword("Play", span)
      [] l = "wait" -> Token_Keyword("Wait", span)
      [] l = "with" -> Token_Keyword("With", span)
      [] l = "sequence" -> Token_Keyword("Sequence", span)
      [] l = "let" -> Token_Keyword("Let", span)
      [] l = "load_sample" -> Token_Keyword("LoadSample", span)
      [] l = "a" -> Token_Identifier(1, span)
      [] l = "b" -> Token_Identifier(2, span)
      [] l = "c" -> Token_Identifier(3, span)
      [] l = "1" -> Token_Integer(<<1>>, span)
      [] l = "2" -> Token_Integer(<<2>>, span)
      [] l = "3" -> Token_Integer(<<3>>, span)
      [] l = "4" -> Token_Integer(<<4>>, span)
      [] l = "2.5" -> Token_Float([int |-> <<2>>, frac |-> <<5>>], span)
      [] l = "true" -> Token_Bool(TRUE, span)
      [] l = "+" -> Token_Operator("Plus", span)
      [] l = "-" -> Token_Operator("Minus", span)
      [] l = "*" -> Token_Operator("Star", span)
      [] l = "/" -> Token_Operator("Slash", span)
      [] l = "=" -> Token_Operator("Assign", span)
      [] l = "+=" -> Token_Operator("PlusEq", span)
      [] l = "-=" -> Token_Operator("MinusEq", span)
      [] l = "==" -> Token_Operator("Eq", span)
      [] l = "!" -> Token_Operator("Exclamation", span)
      [] l = "{" -> Token_Punctuator("LeftBrace", span)
      [] l = "}" -> Token_Punctuator("RightBrace", span)
      [] l = "[" -> Token_Punctuator("LeftBracket", span)
      [] l = "]" -> Token_Punctuator("RightBracket", span)
      [] l = "(" -> Token_Punctuator("LeftParen", span)
      [] l = ")" -> Token_Punctuator("RightParen", span)
      [] l = ":" -> Token_Punctuator("Colon", span)
      [] l = "," -> Token_Punctuator("Comma", span)
      [] l = "." -> Token_Punctuator("Dot", span)
      [] l = NL -> Token_EndOfLine(span)

After(loc, l) ==
    IF l = NL THEN Location_new(loc.line + 1, 0, loc.index + 1)
    ELSE Location_new(loc.line, loc.column + LexemeWidth(l), loc.index + LexemeWidth(l))

RECURSIVE Layout(_, _, _)
Layout(ls, loc, acc) ==
    IF ls = <<>> THEN acc
    ELSE LET start == IF acc = <<>> THEN loc
                      ELSE Location_new(loc.line, loc.column + 1, loc.index + 1)
             end == After(start, Head(ls))
         IN  Layout(Tail(ls), end, Append(acc, LexemeToken(Head(ls), Span_new(start, end))))

EndOf(tokens) == IF tokens = <<>> THEN Location_sof ELSE tokens[Len(tokens)].span.end

(* the tokens of the lexemes, without and with the closing EndOfFile *)
TokensOf(ls) == Layout(ls, Location_sof, <<>>)
StreamOf(ls) == Append(TokensOf(ls), Token_EndOfFile(EndOf(TokensOf(ls))))

-----------------------------------------------------------------------------
(* The AST *)

Expression_Integer(value, span) == [type |-> "Integer", value |-> value, span |-> span]
Expression_Float(value, span) == [type |-> "Float", value |-> value, span |-> span]
Expression_Bool(value, span) == [type |-> "Bool", value |-> value, span |-> span]
Expression_Identifier(name, span) == [type |-> "Identifier", name |-> name, span |-> span]
Expression_Binary(operator, left, right) ==
    [type |-> "Binary", operator |-> operator, left |-> left, right |-> right]
Expression_Prefix(operator, operand) ==
    [type |-> "Prefix", operator |-> operator, operand |-> operand]
Expression_List(expressions, span) ==
    [type |-> "List", expressions |-> expressions, span |-> span]
Expression_LoadSample(sample, span) ==
    [type |-> "LoadSample", sample |-> sample, span |-> span]

BinaryOperator(kind, span) == [kind |-> kind, span |-> span]
PrefixOperator(kind, span) == [kind |-> kind, span |-> span]

RECURSIVE Expression_span(_)
Expression_span(e) ==
    CASE e.type = "Binary" ->
            Span_new(Expression_span(e.left).start, Expression_span(e.right).end)
      [] e.type = "Prefix" -> Span_new(e.operator.span.start, Expression_span(e.operand).end)
      [] OTHER -> e.span

Statement_Wait(expression) == [type |-> "Wait", expression |-> expression]
Statement_Play(expression) == [type |-> "Play", expression |-> expression]
Statement_Sequence(name, block) == [type |-> "Sequence", name |-> name, block |-> block]
Statement_With(properties, block) ==
    [type |-> "With", properties |-> properties, block |-> block]
Statement_Let(name, value) == [type |-> "Let", name |-> name, value |-> value]
Statement_Expression(expression) == [type |-> "Expression", expression |-> expression]

Block(statements, span) == [statements |-> statements, span |-> span]
Property(name, value) == [name |-> name, value |-> value]
Identifier(name, span) == [name |-> name, span |-> span]

(* BinaryOperatorKind::precedence *)
(* the precedence table with Assign binding tightest *)
precedence_AssignHighest(kind) ==
    CASE kind = "Assign" -> 4
      [] kind \in {"Plus", "Minus"} -> 2
      [] kind \in {"Star", "Slash"} -> 3

precedence(kind) ==
    CASE kind = "Assign" -> 1
      [] kind \in {"Plus", "Minus"} -> 2
      [] kind \in {"Star", "Slash"} -> 3

into_binary_operator_kind(operator) ==
    IF operator \in {"Plus", "Minus", "Star", "Slash", "Assign"} THEN Some(operator) ELSE None

(* into_prefix_operator_kind with a prefix form of Plus as well *)
into_prefix_operator_kind_Plus(operator) ==
    IF operator \in {"Exclamation", "Plus"} THEN Some(operator) ELSE None

into_prefix_operator_kind(operator) ==
    IF operator = "Exclamation" THEN Some("Exclamation") ELSE None

-----------------------------------------------------------------------------
(***************************************************************************)
(* The parser.  Result<T, ParseError> is Ok(v) or Err(e).  Within one step *)
(* the token cursor is [location, panicked]: a read that panics sets       *)
(* panicked, and the step then ends in the panic whatever follows.         *)
(***************************************************************************)

Ok(v) == [type |-> "Ok", value |-> v]
Err(e) == [type |-> "Err", error |-> e]

InvalidTokenStream == [type |-> "InvalidTokenStream"]
ExpectedExpression(token) == [type |-> "ExpectedExpression", got |-> token]
ExpectedIdentifier(token) == [type |-> "ExpectedIdentifier", got |-> token]
ExpectedPunctuation(expected, token) ==
    [type |-> "ExpectedPunctuation", expected |-> expected, got |-> token]
ExpectedOperator(expected, token) ==
    [type |-> "ExpectedOperator", expected |-> expected, got |-> token]

(* F applied to the value of v: the argument is evaluated once, as an
   argument of a call is *)
Bind(v, F(_)) == CHOOSE r \in {F(x) : x \in {v}} : TRUE

(* cursor.peek() and cursor.next() within a step: [token, tc] *)
peek(s, cur) ==
    Bind(cur, LAMBDA tc :
        LET r == TokenStreamCursor_peek(s, tc) IN
        IF tc.panicked \/ r.type = "Panic"
        THEN [token |-> NoToken, tc |-> [location |-> tc.location, panicked |-> TRUE]]
        ELSE [token |-> r.token, tc |-> tc])

next(s, cur) ==
    Bind(cur, LAMBDA tc :
        LET r == TokenStreamCursor_next(s, tc) IN
        IF tc.panicked \/ r.type = "Panic"
        THEN [token |-> NoToken,
              tc |-> [location |-> Advance(tc).location, panicked |-> TRUE]]
        ELSE [token |-> r.token,
              tc |-> [location |-> Advance(tc).location, panicked |-> FALSE]])

RECURSIVE skip_end_of_lines(_, _)
skip_end_of_lines(s, cur) ==
    Bind(peek(s, cur), LAMBDA p :
        IF is_end_of_line(p.token) THEN skip_end_of_lines(s, next(s, p.tc).tc)
        ELSE p.tc)

parse_identifier(s, tc) ==
    Bind(next(s, tc), LAMBDA n :
        [result |-> IF n.token.type = "Identifier"
                    THEN Ok(Identifier(n.token.name, n.token.span))
                    ELSE Err(ExpectedIdentifier(n.token)),
         tc |-> n.tc])

parse_punctuator(s, tc, punctuator) ==
    Bind(next(s, tc), LAMBDA n :
        [result |-> IF ~is_punctuator(n.token, punctuator)
                    THEN Err(ExpectedPunctuation(punctuator, n.token))
                    ELSE Ok(n.token),
         tc |-> n.tc])

parse_operator(s, tc, operator) ==
    Bind(next(s, tc), LAMBDA n :
        [result |-> IF ~is_operator(n.token, operator)
                    THEN Err(ExpectedOperator(operator, n.token))
                    ELSE Ok(n.token),
         tc |-> n.tc])

(***************************************************************************)
(* A call stack frame is [fn, pc, locals...].  A step of the function on   *)
(* top of the stack runs from pc to its next call, loop head or return     *)
(* and yields one of these outcomes.                                       *)
(***************************************************************************)

Goto(frame, tc) == [kind |-> "goto", frame |-> frame, tc |-> tc]
Call(frame, callee, tc) == [kind |-> "call", frame |-> frame, callee |-> callee, tc |-> tc]
Return(result, tc) == [kind |-> "return", result |-> result, tc |-> tc]

Frame_parse_statement == [fn |-> "parse_statement", pc |-> "start"]
Frame_parse_block == [fn |-> "parse_block", pc |-> "start"]
Frame_parse_prefix_expression == [fn |-> "parse_prefix_expression", pc |-> "start"]
Frame_parse_sequence_statement == [fn |-> "parse_sequence_statement", pc |-> "start"]
Frame_parse_let_statement == [fn |-> "parse_let_statement", pc |-> "start"]
Frame_parse_with_statement == [fn |-> "parse_with_statement", pc |-> "start"]
Frame_parse_property == [fn |-> "parse_property", pc |-> "start"]
Frame_parse_expression_with_precedence(min) ==
    [fn |-> "parse_expression_with_precedence", pc |-> "start", precedence |-> min]
(* parse_expression(cursor) is parse_expression_with_precedence(cursor, 0) *)
Frame_parse_expression == Frame_parse_expression_with_precedence(0)

(* parse without skip_end_of_lines in front of a statement *)
Step_parse_NoSkip(f, s, tc, r) ==
    CASE f.pc = "loop" ->
            IF is_end_of_file(peek(s, tc).token) THEN Return(Ok(f.statements), tc)
            ELSE Call([f EXCEPT !.pc = "statement"], Frame_parse_statement, tc)
      [] f.pc = "statement" ->
            IF r.type = "Err" THEN Return(r, tc)
            ELSE Goto([f EXCEPT !.pc = "loop", !.statements = Append(@, r.value)], tc)

(* parse that puts each statement in front of the earlier ones *)
Step_parse_Prepend(f, s, tc, r) ==
    CASE f.pc = "loop" ->
            LET tc1 == skip_end_of_lines(s, tc) IN
            IF is_end_of_file(peek(s, tc1).token) THEN Return(Ok(f.statements), tc1)
            ELSE Call([f EXCEPT !.pc = "statement"], Frame_parse_statement, tc1)
      [] f.pc = "statement" ->
            IF r.type = "Err" THEN Return(r, tc)
            ELSE Goto([f EXCEPT !.pc = "loop", !.statements = <<r.value>> \o @], tc)

Step_parse(f, s, tc, r) ==
    CASE f.pc = "loop" ->
            LET tc1 == skip_end_of_lines(s, tc) IN
            IF is_end_of_file(peek(s, tc1).token) THEN Return(Ok(f.statements), tc1)
            ELSE Call([f EXCEPT !.pc = "statement"], Frame_parse_statement, tc1)
      [] f.pc = "statement" ->
            IF r.type = "Err" THEN Return(r, tc)
            ELSE Goto([f EXCEPT !.pc = "loop", !.statements = Append(@, r.value)], tc)

Step_parse_block(f, s, tc, r) ==
    CASE f.pc = "start" ->
            LET b == parse_punctuator(s, tc, "LeftBrace") IN
            IF b.result.type = "Err" THEN Return(b.result, b.tc)
            ELSE Goto([fn |-> "parse_block", pc |-> "loop",
                       start |-> Token_span(b.result.value).start,
                       statements |-> <<>>], b.tc)
      [] f.pc = "loop" ->
            LET tc1 == skip_end_of_lines(s, tc) IN
            IF is_punctuator(peek(s, tc1).token, "RightBrace")
            THEN LET n == next(s, tc1) IN
                 Return(Ok(Block(f.statements, Span_new(f.start, Token_span(n.token).end))),
                        n.tc)
            ELSE Call([f EXCEPT !.pc = "statement"], Frame_parse_statement, tc1)
      [] f.pc = "statement" ->
            IF r.type = "Err" THEN Return(r, tc)
            ELSE Goto([f EXCEPT !.pc = "loop", !.statements = Append(@, r.value)], tc)

Step_parse_statement(f, s, tc, r) ==
    CASE f.pc = "start" ->
            LET token == peek(s, tc).token IN
            IF is_keyword(token, "Play")
            THEN Call([f EXCEPT !.pc = "play"], Frame_parse_expression, next(s, tc).tc)
            ELSE IF is_keyword(token, "Wait")
            THEN Call([f EXCEPT !.pc = "wait"], Frame_parse_expression, next(s, tc).tc)
            ELSE IF is_keyword(token, "Sequence")
            THEN Call([f EXCEPT !.pc = "tail"], Frame_parse_sequence_statement, tc)
            ELSE IF is_keyword(token, "With")
            THEN Call([f EXCEPT !.pc = "tail"], Frame_parse_with_statement, tc)
            ELSE IF is_keyword(token, "Let")
            THEN Call([f EXCEPT !.pc = "tail"], Frame_parse_let_statement, tc)
            ELSE Call([f EXCEPT !.pc = "expression"], Frame_parse_expression,
                      peek(s, tc).tc)
      [] f.pc = "play" ->
            IF r.type = "Err" THEN Return(r, tc) ELSE Return(Ok(Statement_Play(r.value)), tc)
      [] f.pc = "wait" ->
            IF r.type = "Err" THEN Return(r, tc) ELSE Return(Ok(Statement_Wait(r.value)), tc)
      [] f.pc = "tail" -> Return(r, tc)
      [] f.pc = "expression" ->
            IF r.type = "Err" THEN Return(r, tc)
            ELSE Return(Ok(Statement_Expression(r.value)), tc)

(* the expression loop without skip_end_of_lines after the operator *)
Step_parse_expression_with_precedence_NoSkip(f, s, tc, r) ==
    CASE f.pc = "start" -> Call([f EXCEPT !.pc = "prefix"], Frame_parse_prefix_expression, tc)
      [] f.pc = "prefix" ->
            IF r.type = "Err" THEN Return(r, tc)
            ELSE Goto([fn |-> f.fn, pc |-> "while", precedence |-> f.precedence,
                       left |-> r.value], tc)
      [] f.pc = "while" ->       \* while let Token::Operator { .. } = cursor.peek()
            LET p == peek(s, tc) IN
            IF p.token.type = "Operator"
            THEN Goto([fn |-> f.fn, pc |-> "body", precedence |-> f.precedence,
                       left |-> f.left, operator |-> p.token.operator,
                       operator_span |-> p.token.span], p.tc)
            ELSE Return(Ok(f.left), p.tc)
      [] f.pc = "body" ->
            LET kind == into_binary_operator_kind(f.operator) IN
            IF kind = None
            THEN Goto([fn |-> f.fn, pc |-> "while", precedence |-> f.precedence,
                       left |-> f.left], tc)                              \* continue
            ELSE IF precedence(kind[1]) < f.precedence THEN Return(Ok(f.left), tc)   \* break
            ELSE Call([f EXCEPT !.pc = "right"],
                      Frame_parse_expression_with_precedence(precedence(kind[1]) + 1),
                      next(s, tc).tc)
      [] f.pc = "right" ->
            IF r.type = "Err" THEN Return(r, tc)
            ELSE Goto([fn |-> f.fn, pc |-> "while", precedence |-> f.precedence,
                       left |-> Expression_Binary(
                                   BinaryOperator(into_binary_operator_kind(f.operator)[1],
                                                  f.operator_span),
                                   f.left, r.value)], tc)

Step_parse_expression_with_precedence(f, s, tc, r) ==
    CASE f.pc = "start" -> Call([f EXCEPT !.pc = "prefix"], Frame_parse_prefix_expression, tc)
      [] f.pc = "prefix" ->
            IF r.type = "Err" THEN Return(r, tc)
            ELSE Goto([fn |-> f.fn, pc |-> "while", precedence |-> f.precedence,
                       left |-> r.value], tc)
      [] f.pc = "while" ->       \* while let Token::Operator { .. } = cursor.peek()
            LET p == peek(s, tc) IN
            IF p.token.type = "Operator"
            THEN Goto([fn |-> f.fn, pc |-> "body", precedence |-> f.precedence,
                       left |-> f.left, operator |-> p.token.operator,
                       operator_span |-> p.token.span], p.tc)
            ELSE Return(Ok(f.left), p.tc)
      [] f.pc = "body" ->
            LET kind == into_binary_operator_kind(f.operator) IN
            IF kind = None
            THEN Goto([fn |-> f.fn, pc |-> "while", precedence |-> f.precedence,
                       left |-> f.left], tc)                              \* continue
            ELSE IF precedence(kind[1]) < f.precedence THEN Return(Ok(f.left), tc)   \* break
            ELSE Call([f EXCEPT !.pc = "right"],
                      Frame_parse_expression_with_precedence(precedence(kind[1]) + 1),
                      skip_end_of_lines(s, next(s, tc).tc))
      [] f.pc = "right" ->
            IF r.type = "Err" THEN Return(r, tc)
            ELSE Goto([fn |-> f.fn, pc |-> "while", precedence |-> f.precedence,
                       left |-> Expression_Binary(
                                   BinaryOperator(into_binary_operator_kind(f.operator)[1],
                                                  f.operator_span),
                                   f.left, r.value)], tc)

(* the end of the list arm: let end = cursor.next().span().end() *)
CloseList(f, s, tc) ==
    LET n == next(s, tc) IN
    Return(Ok(Expression_List(f.expressions,
                              Span_new(Token_span(f.token).start, Token_span(n.token).end))),
           n.tc)

(* the prefix expression whose load_sample arm takes a prefix expression as operand *)
Step_parse_prefix_expression_PrefixOperand(f, s, tc, r) ==
    CASE f.pc = "start" ->
            LET n == next(s, tc)
                token == n.token
            IN  IF token.type = "Integer"
                THEN Return(Ok(Expression_Integer(token.value, token.span)), n.tc)
                ELSE IF token.type = "Float"
                THEN Return(Ok(Expression_Float(token.value, token.span)), n.tc)
                ELSE IF token.type = "Identifier"
                THEN Return(Ok(Expression_Identifier(token.name, token.span)), n.tc)
                ELSE IF is_punctuator(token, "LeftParen")
                THEN Call([f EXCEPT !.pc = "paren"], Frame_parse_expression, n.tc)
                ELSE IF is_punctuator(token, "LeftBracket")
                THEN LET tc1 == skip_end_of_lines(s, n.tc)
                         g == [fn |-> f.fn, pc |-> "list_first", token |-> token,
                               expressions |-> <<>>]
                     IN  IF ~is_punctuator(peek(s, tc1).token, "RightBracket")
                         THEN Call(g, Frame_parse_expression, tc1)
                         ELSE CloseList(g, s, tc1)
                ELSE IF is_keyword(token, "LoadSample")
                THEN Call([fn |-> f.fn, pc |-> "load_sample", token |-> token],
                          Frame_parse_prefix_expression, n.tc)
                ELSE IF token.type = "Operator"
                THEN IF into_prefix_operator_kind(token.operator) = None
                     THEN Return(Err(ExpectedExpression(token)), n.tc)
                     ELSE Call([fn |-> f.fn, pc |-> "operand", token |-> token],
                               Frame_parse_prefix_expression, n.tc)
                ELSE Return(Err(ExpectedExpression(token)), n.tc)
      [] f.pc = "paren" ->
            IF r.type = "Err" THEN Return(r, tc)
            ELSE LET b == parse_punctuator(s, tc, "RightParen") IN
                 IF b.result.type = "Err" THEN Return(b.result, b.tc)
                 ELSE Return(Ok(r.value), b.tc)
      [] f.pc = "list_first" ->
            IF r.type = "Err" THEN Return(r, tc)
            ELSE Goto([f EXCEPT !.pc = "list_while", !.expressions = Append(@, r.value)],
                      skip_end_of_lines(s, tc))
      [] f.pc = "list_while" ->   \* while cursor.peek().is_punctuator(Punctuator::Comma)
            IF is_punctuator(peek(s, tc).token, "Comma")
            THEN LET tc1 == skip_end_of_lines(s, next(s, tc).tc) IN
                 IF is_punctuator(peek(s, tc1).token, "RightBracket")
                 THEN CloseList(f, s, tc1)                                \* break
                 ELSE Call([f EXCEPT !.pc = "list_item"], Frame_parse_expression, tc1)
            ELSE CloseList(f, s, peek(s, tc).tc)
      [] f.pc = "list_item" ->
            IF r.type = "Err" THEN Return(r, tc)
            ELSE Goto([f EXCEPT !.pc = "list_while", !.expressions = Append(@, r.value)], tc)
      [] f.pc = "load_sample" ->
            IF r.type = "Err" THEN Return(r, tc)
            ELSE Return(Ok(Expression_LoadSample(
                              r.value,
                              Span_new(Token_span(f.token).start,
                                       Expression_span(r.value).end))), tc)
      [] f.pc = "operand" ->
            IF r.type = "Err" THEN Return(r, tc)
            ELSE Return(Ok(Expression_Prefix(
                              PrefixOperator(into_prefix_operator_kind(f.token.operator)[1],
                                             f.token.span),
                              r.value)), tc)

Step_parse_prefix_expression(f, s, tc, r) ==
    CASE f.pc = "start" ->
            LET n == next(s, tc)
                token == n.token
            IN  IF token.type = "Integer"
                THEN Return(Ok(Expression_Integer(token.value, token.span)), n.tc)
                ELSE IF token.type = "Float"
                THEN Return(Ok(Expression_Float(token.value, token.span)), n.tc)
                ELSE IF token.type = "Identifier"
                THEN Return(Ok(Expression_Identifier(token.name, token.span)), n.tc)
                ELSE IF is_punctuator(token, "LeftParen")
                THEN Call([f EXCEPT !.pc = "paren"], Frame_parse_expression, n.tc)
                ELSE IF is_punctuator(token, "LeftBracket")
                THEN LET tc1 == skip_end_of_lines(s, n.tc)
                         g == [fn |-> f.fn, pc |-> "list_first", token |-> token,
                               expressions |-> <<>>]
                     IN  IF ~is_punctuator(peek(s, tc1).token, "RightBracket")
                         THEN Call(g, Frame_parse_expression, tc1)
                         ELSE CloseList(g, s, tc1)
                ELSE IF is_keyword(token, "LoadSample")
                THEN Call([fn |-> f.fn, pc |-> "load_sample", token |-> token],
                          Frame_parse_expression, n.tc)
                ELSE IF token.type = "Operator"
                THEN IF into_prefix_operator_kind(token.operator) = None
                     THEN Return(Err(ExpectedExpression(token)), n.tc)
                     ELSE Call([fn |-> f.fn, pc |-> "operand", token |-> token],
                               Frame_parse_prefix_expression, n.tc)
                ELSE Return(Err(ExpectedExpression(token)), n.tc)
      [] f.pc = "paren" ->
            IF r.type = "Err" THEN Return(r, tc)
            ELSE LET b == parse_punctuator(s, tc, "RightParen") IN
                 IF b.result.type = "Err" THEN Return(b.result, b.tc)
                 ELSE Return(Ok(r.value), b.tc)
      [] f.pc = "list_first" ->
            IF r.type = "Err" THEN Return(r, tc)
            ELSE Goto([f EXCEPT !.pc = "list_while", !.expressions = Append(@, r.value)],
                      skip_end_of_lines(s, tc))
      [] f.pc = "list_while" ->   \* while cursor.peek().is_punctuator(Punctuator::Comma)
            IF is_punctuator(peek(s, tc).token, "Comma")
            THEN LET tc1 == skip_end_of_lines(s, next(s, tc).tc) IN
                 IF is_punctuator(peek(s, tc1).token, "RightBracket")
                 THEN CloseList(f, s, tc1)                                \* break
                 ELSE Call([f EXCEPT !.pc = "list_item"], Frame_parse_expression, tc1)
            ELSE CloseList(f, s, peek(s, tc).tc)
      [] f.pc = "list_item" ->
            IF r.type = "Err" THEN Return(r, tc)
            ELSE Goto([f EXCEPT !.pc = "list_while", !.expressions = Append(@, r.value)], tc)
      [] f.pc = "load_sample" ->
            IF r.type = "Err" THEN Return(r, tc)
            ELSE Return(Ok(Expression_LoadSample(
                              r.value,
                              Span_new(Token_span(f.token).start,
                                       Expression_span(r.value).end))), tc)
      [] f.pc = "operand" ->
            IF r.type = "Err" THEN Return(r, tc)
            ELSE Return(Ok(Expression_Prefix(
                              PrefixOperator(into_prefix_operator_kind(f.token.operator)[1],
                                             f.token.span),
                              r.value)), tc)

Step_parse_sequence_statement(f, s, tc, r) ==
    CASE f.pc = "start" ->
            LET i == parse_identifier(s, next(s, tc).tc) IN
            IF i.result.type = "Err" THEN Return(i.result, i.tc)
            ELSE Call([fn |-> f.fn, pc |-> "block", name |-> i.result.value],
                      Frame_parse_block, i.tc)
      [] f.pc = "block" ->
            IF r.type = "Err" THEN Return(r, tc)
            ELSE Return(Ok(Statement_Sequence(f.name, r.value)), tc)

(* let without skip_end_of_lines in front of the `=` *)
Step_parse_let_statement_NoSkipBefore(f, s, tc, r) ==
    CASE f.pc = "start" ->
            LET i == parse_identifier(s, next(s, tc).tc) IN
            IF i.result.type = "Err" THEN Return(i.result, i.tc)
            ELSE LET o == parse_operator(s, i.tc, "Assign") IN
                 IF o.result.type = "Err" THEN Return(o.result, o.tc)
                 ELSE Call([fn |-> f.fn, pc |-> "value", name |-> i.result.value],
                           Frame_parse_expression, skip_end_of_lines(s, o.tc))
      [] f.pc = "value" ->
            IF r.type = "Err" THEN Return(r, tc)
            ELSE Return(Ok(Statement_Let(f.name, r.value)), tc)

Step_parse_let_statement(f, s, tc, r) ==
    CASE f.pc = "start" ->
            LET i == parse_identifier(s, next(s, tc).tc) IN
            IF i.result.type = "Err" THEN Return(i.result, i.tc)
            ELSE LET o == parse_operator(s, skip_end_of_lines(s, i.tc), "Assign") IN
                 IF o.result.type = "Err" THEN Return(o.result, o.tc)
                 ELSE Call([fn |-> f.fn, pc |-> "value", name |-> i.result.value],
                           Frame_parse_expression, skip_end_of_lines(s, o.tc))
      [] f.pc = "value" ->
            IF r.type = "Err" THEN Return(r, tc)
            ELSE Return(Ok(Statement_Let(f.name, r.value)), tc)

Step_parse_property(f, s, tc, r) ==
    CASE f.pc = "start" ->
            LET i == parse_identifier(s, tc) IN
            IF i.result.type = "Err" THEN Return(i.result, i.tc)
            ELSE LET c == parse_punctuator(s, i.tc, "Colon") IN
                 IF c.result.type = "Err" THEN Return(c.result, c.tc)
                 ELSE Call([fn |-> f.fn, pc |-> "value", name |-> i.result.value],
                           Frame_parse_expression, c.tc)
      [] f.pc = "value" ->
            IF r.type = "Err" THEN Return(r, tc)
            ELSE Return(Ok(Property(f.name, r.value)), tc)

(* parse_with_statement that takes a property after every comma *)
Step_parse_with_statement_NoTrailingComma(f, s, tc, r) ==
    CASE f.pc = "start" ->
            Call([fn |-> f.fn, pc |-> "first", properties |-> <<>>], Frame_parse_property,
                 next(s, tc).tc)
      [] f.pc \in {"first", "property"} ->
            IF r.type = "Err" THEN Return(r, tc)
            ELSE Goto([f EXCEPT !.pc = "while", !.properties = Append(@, r.value)], tc)
      [] f.pc = "while" ->
            IF is_punctuator(peek(s, tc).token, "Comma")
            THEN Call([f EXCEPT !.pc = "property"], Frame_parse_property, next(s, tc).tc)
            ELSE Call([f EXCEPT !.pc = "block"], Frame_parse_block, peek(s, tc).tc)
      [] f.pc = "block" ->
            IF r.type = "Err" THEN Return(r, tc)
            ELSE Return(Ok(Statement_With(f.properties, r.value)), tc)

Step_parse_with_statement(f, s, tc, r) ==
    CASE f.pc = "start" ->
            Call([fn |-> f.fn, pc |-> "first", properties |-> <<>>], Frame_parse_property,
                 next(s, tc).tc)
      [] f.pc \in {"first", "property"} ->
            IF r.type = "Err" THEN Return(r, tc)
            ELSE Goto([f EXCEPT !.pc = "while", !.properties = Append(@, r.value)], tc)
      [] f.pc = "while" ->        \* while cursor.peek().is_punctuator(Punctuator::Comma)
            IF is_punctuator(peek(s, tc).token, "Comma")
            THEN LET tc1 == next(s, tc).tc IN
                 IF is_punctuator(peek(s, tc1).token, "LeftBrace")
                 THEN Call([f EXCEPT !.pc = "block"], Frame_parse_block, peek(s, tc1).tc)
                 ELSE Call([f EXCEPT !.pc = "property"], Frame_parse_property,
                           peek(s, tc1).tc)
            ELSE Call([f EXCEPT !.pc = "block"], Frame_parse_block, peek(s, tc).tc)
      [] f.pc = "block" ->
            IF r.type = "Err" THEN Return(r, tc)
            ELSE Return(Ok(Statement_With(f.properties, r.value)), tc)

(* The step cursor of the TokenStreamCursor that parse holds. *)
StepCursor == [location |-> tcursor[1].location, panicked |-> FALSE]

(* What an outcome does to the state; a panic unwinds the whole stack, and the
   return of the outermost frame, parse, is the result of the parse. *)
Apply(out) ==
    /\ tcursor' = Some([location |-> out.tc.location])
    /\ IF out.tc.panicked
       THEN stack' = <<>> /\ ret' = Idle /\ parsed' = [type |-> "Panic"]
       ELSE IF out.kind = "goto"
       THEN stack' = <<out.frame>> \o Tail(stack) /\ ret' = Idle /\ parsed' = parsed
       ELSE IF out.kind = "call"
       THEN stack' = <<out.callee, out.frame>> \o Tail(stack) /\ ret' = Idle
            /\ parsed' = parsed
       ELSE IF Len(stack) = 1
       THEN stack' = <<>> /\ ret' = Idle /\ parsed' = out.result
       ELSE stack' = Tail(stack) /\ ret' = out.result /\ parsed' = parsed
    /\ UNCHANGED <<source, cursor, stream, scanned, interner, interned, got,
                 threads, lazy, returned>>

On(fn) == parsed.type = "Running" /\ stack # <<>> /\ Head(stack).fn = fn

(* parse: first stream.into_cursor(), then the loop over the statements *)
parse ==
    /\ On("parse")
    /\ IF Head(stack).pc = "start"
       THEN /\ tcursor' = into_cursor(stream)
            /\ IF into_cursor(stream) = None
               THEN stack' = <<>> /\ parsed' = Err(InvalidTokenStream)
               ELSE stack' = <<[fn |-> "parse", pc |-> "loop", statements |-> <<>>]>>
                    /\ parsed' = parsed
            /\ UNCHANGED <<source, cursor, stream, scanned, interner, interned, got, ret,
                 threads, lazy, returned>>
       ELSE Apply(Step_parse(Head(stack), stream, StepCursor, ret))

parse_block ==
    /\ On("parse_block")
    /\ Apply(Step_parse_block(Head(stack), stream, StepCursor, ret))

parse_statement ==
    /\ On("parse_statement")
    /\ Apply(Step_parse_statement(Head(stack), stream, StepCursor, ret))

parse_expression_with_precedence ==
    /\ On("parse_expression_with_precedence")
    /\ Apply(Step_parse_expression_with_precedence(Head(stack), stream, StepCursor, ret))

parse_prefix_expression ==
    /\ On("parse_prefix_expression")
    /\ Apply(Step_parse_prefix_expression(Head(stack), stream, StepCursor, ret))

parse_sequence_statement ==
    /\ On("parse_sequence_statement")
    /\ Apply(Step_parse_sequence_statement(Head(stack), stream, StepCursor, ret))

parse_let_statement ==
    /\ On("parse_let_statement")
    /\ Apply(Step_parse_let_statement(Head(stack), stream, StepCursor, ret))

parse_with_statement ==
    /\ On("parse_with_statement")
    /\ Apply(Step_parse_with_statement(Head(stack), stream, StepCursor, ret))

parse_property ==
    /\ On("parse_property")
    /\ Apply(Step_parse_property(Head(stack), stream, StepCursor, ret))

-----------------------------------------------------------------------------
(* Bounds and inputs of the parser's specification *)

MaxStreamLen == 3
MaxInvalidLen == 2

ParseLexemes == {"a", "1", "+", "*", "==", "!", "[", "]", ",", "(", ")", NL}

BinaryLexemes == {"+", "-", "*", "/", "="}

(* x op1 y op2 z *)
TwoOperators == {<<"a", op1, "b", op2, "c">> : op1 \in BinaryLexemes, op2 \in BinaryLexemes}

TestLexemes ==
    { <<"a", "+", NL, "2", "*", "(", "3", "+", "b", ")", "-", "3">>,
      <<"a", "+", "2", "*", "(", "3", "+", "b", ")", "-", "3">>,
      <<"with", "a", ":", "3", ",", "b", ":", "2", ",", "{", "}">>,
      <<"with", "a", ":", "3", "{", "play", "a", NL, "}">>,
      <<"with", "{", "}">>,
      <<"sequence", "a", "{", "}">>,
      <<"sequence", "a", "{", NL, "play", "c", NL, "wait", "1", NL, "}">>,
      <<"sequence", "a", "{", "play", "c">>,
      <<"play", "c", "wait", "1">>,
      <<"play", "true">>,
      <<"true">>,
      <<"let", "a", "=", "3", "+", "2">>,
      <<"let", "a", NL, "=", NL, "b", "=", "c">>,
      <<"let", "1">>,
      <<"let", "a", "+">>,
      <<"load_sample", "a", "+", "b">>,
      <<"!", "!", "a", "+", "b">>,
      <<"a", "+=", "1">>,
      <<"a", "-=", "1">>,
      <<"a", "=", "b">>,
      <<"2.5", "/", "a", ".">>,
      <<"[", "1", ",", "2", "]", NL, "[", "1", ",", NL, "2", "]", NL,
        "[", NL, "1", ",", NL, "2", "]", NL, "[", "1", ",", NL, "2", ",", "]">>,
      <<"[", "1", "2">>,
      <<"[", "1", ",", "2", NL, "]">> }

(* with p1, ..., pn { } and with p1, ..., pn, { } *)
MaxProperties == 3

PropertyLexemes(i) ==
    << <<"a", "b", "c">>[((i - 1) % 3) + 1], ":", <<"3", "4", "a">>[((i - 1) % 3) + 1] >>

RECURSIVE PropertiesLexemes(_)
PropertiesLexemes(n) ==
    IF n = 1 THEN PropertyLexemes(1)
    ELSE PropertiesLexemes(n - 1) \o <<",">> \o PropertyLexemes(n)

WithLexemes(n, trailing) ==
    <<"with">> \o PropertiesLexemes(n) \o (IF trailing THEN <<",">> ELSE <<>>) \o <<"{", "}">>

WithStatements == {WithLexemes(n, trailing) : n \in 1..MaxProperties, trailing \in BOOLEAN}

(* list literals closed by `]`: n elements, a line break after `[` or not,
   after the elements in eols, after the commas in ceols, and a trailing
   comma or not *)
MaxElements == 2

RECURSIVE ListItems(_, _, _, _, _)
ListItems(i, n, eols, ceols, trailing) ==
    IF i > n THEN <<>>
    ELSE << <<"1", "2", "3">>[((i - 1) % 3) + 1] >>
         \o (IF i \in eols THEN <<NL>> ELSE <<>>)
         \o (IF i < n \/ trailing
             THEN <<",">> \o (IF i \in ceols THEN <<NL>> ELSE <<>>)
             ELSE <<>>)
         \o ListItems(i + 1, n, eols, ceols, trailing)

ListLexemes(x) ==
    <<"[">> \o (IF x.open THEN <<NL>> ELSE <<>>)
    \o ListItems(1, x.n, x.eols, x.ceols, x.trailing) \o <<"]">>

ClosedLists ==
    UNION { [n : {n}, open : BOOLEAN, eols : SUBSET (1..n), ceols : SUBSET (1..n),
             trailing : IF n = 0 THEN {FALSE} ELSE BOOLEAN] : n \in 0..MaxElements }

(* a list that is not closed: `[`, elements, then a token that is neither `,`
   nor `]` (none stands for the EndOfFile) *)
UnclosedLists ==
    {[elements |-> es, rest |-> r] :
        es \in {<<"[", "1">>, <<"[", "1", ",", "2">>, <<"[", NL, "1", NL>>,
                <<"[", "a", "+", "1", ",", "(", "2", ")">>},
        r \in {<<>>, <<"2">>, <<")">>, <<"a", "]">>, <<":", "1", "]">>}}
    \cup {[elements |-> <<"[">>, rest |-> r] : r \in {<<>>, <<")">>, <<":", "]">>}}

(* a op 2 with line breaks before and after the operator, and
   a op1 b op2 c with a line break after each operator *)
MaxBreaks == 2

Breaks(n) == [i \in 1..n |-> NL]

BrokenLexemes(op, before, after) == <<"a">> \o Breaks(before) \o <<op>> \o Breaks(after) \o <<"2">>

BrokenExpressions ==
    {BrokenLexemes(op, before, after) :
        op \in BinaryLexemes, before \in 0..MaxBreaks, after \in 0..MaxBreaks}
    \cup {<<"a", op1, NL, "b", op2, NL, "c">> : op1 \in BinaryLexemes, op2 \in BinaryLexemes}

(* sequence a, followed by any braces, line breaks, names and nested
   sequences; and blocks with statements, nested, unclosed and after with *)
MaxBlockLen == 3

BlockLexemes == {"{", "}", NL, "a", "sequence"}

BlockTests ==
    { <<"sequence", "a", "{", "play", "c", "wait", "1", "}">>,
      <<"sequence", "a", "{", "sequence", "b", "{", "play", "c", "}", "wait", "1", "}">>,
      <<"sequence", "a", "{", "sequence", "b", "{", "}", "}", "play", "c">>,
      <<"with", "a", ":", "1", "{", "sequence", "b", "{", NL, "}", NL, "}">>,
      <<"sequence", "a", "{", "sequence", "b", "{", "play", "c", "}">>,
      <<"sequence", "a", "{", "sequence", "b", "{", "play", "c", "}", NL>>,
      <<"sequence", "a", "play", "c">>,
      <<"sequence", "a", "{", "[", "1", "]", "}">>,
      <<"sequence", "a", "{", "[", "1">>,
      <<"sequence", "a", "{", "[", "1", "}", "}">> }

(* let a = value with line breaks around the `=`, and let statements
   with another token in the place of the name or of the `=` *)
LetValues == {<<"3">>, <<"3", "+", "2">>, <<"b", "=", "c">>}

LetLexemes(before, after, value) ==
    <<"let", "a">> \o Breaks(before) \o <<"=">> \o Breaks(after) \o value

LetStatements ==
    {LetLexemes(before, after, value) :
        before \in 0..MaxBreaks, after \in 0..MaxBreaks, value \in LetValues}
    \cup {<<"let">> \o rest :
             rest \in {<<>>, <<"1", "=", "3">>, <<"=", "3">>, <<NL, "a", "=", "3">>,
                       <<"let", "a", "=", "3">>, <<"{">>}}
    \cup {<<"let", "a">> \o Breaks(before) \o rest :
             before \in 0..MaxBreaks,
             rest \in {<<>>, <<"+", "3">>, <<"==", "3">>, <<"b">>, <<"3">>, <<"{", "}">>,
                       <<"+=", "3">>}}

(* load_sample in front of a binary expression, alone, nested, and as the
   right operand of a binary operator *)
LoadSamples ==
    {<<"load_sample", "a", op, "b">> : op \in BinaryLexemes}
    \cup {<<"c", op1, "load_sample", "a", op2, "b">> :
             op1 \in BinaryLexemes, op2 \in BinaryLexemes}
    \cup {<<"load_sample">>, <<"load_sample", "a">>, <<"load_sample", "load_sample", "a", "+", "b">>,
          <<"load_sample", NL, "a">>, <<"play", "load_sample", "a", "*", "b">>}

(* prefix operators in front of operands of binary expressions, and
   operators without a prefix form in prefix position *)
PrefixLexemes == {"+", "-", "*", "/", "=", "==", "+=", "-="}

Prefixes ==
    {<<"!", "!", "a", op, "b">> : op \in BinaryLexemes}
    \cup {<<"a", op1, "!", "b", op2, "c">> : op1 \in BinaryLexemes, op2 \in BinaryLexemes}
    \cup {<<op, "a">> : op \in PrefixLexemes}
    \cup {<<"a", "+", op, "b">> : op \in PrefixLexemes}
    \cup {<<"!", op, "b">> : op \in PrefixLexemes}
    \cup {<<"!">>, <<"!", "a">>, <<"!", "!", "!", "1">>, <<"play", "!", "a", "*", "b">>}

(* play c wait 1 with line breaks in front, in between and behind *)
TopLevels ==
    {Breaks(before) \o <<"play", "c">> \o Breaks(between) \o <<"wait", "1">> \o Breaks(after) :
        before \in 0..MaxBreaks, between \in 0..MaxBreaks, after \in 0..MaxBreaks}
    \cup {Breaks(n) : n \in 0..(MaxBreaks + 2)}

Sequences ==
    {<<"sequence", "a">> \o ls : ls \in SeqsUpTo(BlockLexemes, MaxBlockLen)} \cup BlockTests

ParseStreams ==
    {StreamOf(ls) : ls \in SeqsUpTo(ParseLexemes, MaxStreamLen) \cup TwoOperators
                             \cup TestLexemes \cup WithStatements \cup BrokenExpressions
                             \cup Sequences \cup LetStatements \cup LoadSamples
                             \cup Prefixes \cup TopLevels
                             \cup {ListLexemes(x) : x \in ClosedLists}
                             \cup {u.elements \o u.rest : u \in UnclosedLists}}

(* streams that are empty, end in no EndOfFile, or go on after one *)
InvalidStreams ==
    {TokensOf(ls) : ls \in SeqsUpTo({"a", "+", "["}, MaxInvalidLen)}
    \cup {StreamOf(ls) \o TokensOf(<<"a">>) : ls \in SeqsUpTo({"a", "+", "["}, MaxInvalidLen)}

InitParse ==
    /\ stream \in ParseStreams \cup InvalidStreams
    /\ source = <<>>
    /\ cursor = Cursor_new
    /\ scanned = Idle
    /\ interner = <<>>
    /\ interned = <<>>
    /\ tcursor = None
    /\ got = NoCall
    /\ stack = <<[fn |-> "parse", pc |-> "start"]>>
    /\ ret = Idle
    /\ parsed = Running
    /\ threads = NoThreads
    /\ lazy = Uninit
    /\ returned = {}

NextParse ==
    \/ parse
    \/ parse_block
    \/ parse_statement
    \/ parse_expression_with_precedence
    \/ parse_prefix_expression
    \/ parse_sequence_statement
    \/ parse_let_statement
    \/ parse_with_statement
    \/ parse_property

SpecParse == InitParse /\ [][NextParse]_vars

(* parse runs on one thread and takes its next step whenever it has one *)
FairSpecParse == SpecParse /\ WF_vars(NextParse)

-----------------------------------------------------------------------------
(***************************************************************************)
(* The token cursor on its own: a client makes any calls of next and peek  *)
(* on the cursor of a stream that ends in EndOfFile.  got is the last call *)
(* made: which, the cursor's location when it was made, and what it        *)
(* returned.  A call that panics ends the program.                         *)
(***************************************************************************)

MaxCursorLen == 2
MaxPastEnd == 3

CursorLexemes == {"a", "+", "[", NL}

CursorStreams == {StreamOf(ls) : ls \in SeqsUpTo(CursorLexemes, MaxCursorLen)}

InitCursor ==
    /\ stream \in CursorStreams
    /\ tcursor = into_cursor(stream)
    /\ got = NoCall
    /\ source = <<>>
    /\ cursor = Cursor_new
    /\ scanned = Idle
    /\ interner = <<>>
    /\ interned = <<>>
    /\ stack = <<>>
    /\ ret = Idle
    /\ parsed = Idle
    /\ threads = NoThreads
    /\ lazy = Uninit
    /\ returned = {}

CursorAlive ==
    /\ tcursor # None
    /\ IF got.call = "none" THEN TRUE ELSE got.result.type = "Ok"
    /\ tcursor[1].location < Len(stream) + MaxPastEnd

CursorNext ==
    /\ CursorAlive
    /\ tcursor' = Some(Advance(tcursor[1]))
    /\ got' = [call |-> "next", at |-> tcursor[1].location,
               result |-> TokenStreamCursor_next(stream, tcursor[1])]
    /\ UNCHANGED <<source, cursor, stream, scanned, interner, interned, stack, ret, parsed,
                 threads, lazy, returned>>

CursorPeek ==
    /\ CursorAlive
    /\ got' = [call |-> "peek", at |-> tcursor[1].location,
               result |-> TokenStreamCursor_peek(stream, tcursor[1])]
    /\ UNCHANGED <<source, cursor, stream, scanned, interner, interned, tcursor, stack, ret,
                   parsed, threads, lazy, returned>>

NextCursor == CursorNext \/ CursorPeek

SpecCursor == InitCursor /\ [][NextCursor]_vars

-----------------------------------------------------------------------------
(***************************************************************************)
(* The character cursor on its own: a client makes any calls of next and   *)
(* peek on the cursor of a source.  got is the last call made: which, the  *)
(* cursor when it was made, and the character it returned.                 *)
(***************************************************************************)

MaxCharsLen == 3

CursorChars == {"a", NL, "é", "€"}

CharSources == SeqsUpTo(CursorChars, MaxCharsLen)

InitChars ==
    /\ source \in CharSources
    /\ cursor = Cursor_new
    /\ got = NoCall
    /\ stream = <<>>
    /\ scanned = Idle
    /\ interner = <<>>
    /\ interned = <<>>
    /\ tcursor = None
    /\ stack = <<>>
    /\ ret = Idle
    /\ parsed = Idle
    /\ threads = NoThreads
    /\ lazy = Uninit
    /\ returned = {}

CharsNext ==
    /\ cursor' = Cursor_next(source, cursor)
    /\ got' = [call |-> "next", at |-> cursor, result |-> Cursor_peek(source, cursor)]
    /\ UNCHANGED <<source, stream, scanned, interner, interned, tcursor, stack, ret, parsed,
                   threads, lazy, returned>>

CharsPeek ==
    /\ got' = [call |-> "peek", at |-> cursor, result |-> Cursor_peek(source, cursor)]
    /\ UNCHANGED <<source, cursor, stream, scanned, interner, interned, tcursor, stack, ret,
                   parsed, threads, lazy, returned>>

NextChars == CharsNext \/ CharsPeek

SpecChars == InitChars /\ [][NextChars]_vars

-----------------------------------------------------------------------------
(***************************************************************************)
(* Span::len on its own.  A u32 is kept as its two 16-bit halves           *)
(* <<high, low>>.  The subtraction start.index - end.index overflows when  *)
(* start.index < end.index: a build with overflow checks panics, a build   *)
(* without them wraps around.  got holds the span and, after the call,     *)
(* what len returned.                                                      *)
(***************************************************************************)

U16 == 65536

u32(n) == <<n \div U16, n % U16>>

wrapping_sub(a, b) ==
    LET borrow == IF a[2] < b[2] THEN 1 ELSE 0
    IN  <<(a[1] - b[1] - borrow) % U16, (a[2] - b[2]) % U16>>

Span_len(span) ==
    IF span.start.index >= span.end.index
    THEN {Ok(wrapping_sub(u32(span.start.index), u32(span.end.index)))}
    ELSE {[type |-> "Panic"],
          Ok(wrapping_sub(u32(span.start.index), u32(span.end.index)))}

MaxSpanLen == 3

RECURSIVE Consumed(_, _)
Consumed(src, n) == IF n = 0 THEN Cursor_new ELSE Cursor_next(src, Consumed(src, n - 1))

(* the spans between two locations of a cursor, the start not after the end *)
Spans ==
    { Span_new(Consumed(src, i).location, Consumed(src, j).location) :
        src \in SeqsUpTo(CursorChars, MaxSpanLen),
        i \in 0..MaxSpanLen, j \in 0..MaxSpanLen }

InitSpan ==
    /\ got \in {[call |-> "new", span |-> span] :
                  span \in {x \in Spans : x.start.index <= x.end.index}}
    /\ source = <<>>
    /\ cursor = Cursor_new
    /\ stream = <<>>
    /\ scanned = Idle
    /\ interner = <<>>
    /\ interned = <<>>
    /\ tcursor = None
    /\ stack = <<>>
    /\ ret = Idle
    /\ parsed = Idle
    /\ threads = NoThreads
    /\ lazy = Uninit
    /\ returned = {}

SpanLen ==
    /\ got.call = "new"
    /\ \E result \in Span_len(got.span) :
          got' = [call |-> "len", span |-> got.span, result |-> result]
    /\ UNCHANGED <<source, cursor, stream, scanned, interner, interned, tcursor, stack, ret,
                   parsed, threads, lazy, returned>>

NextSpan == SpanLen

SpecSpan == InitSpan /\ [][NextSpan]_vars

-----------------------------------------------------------------------------
(***************************************************************************)
(* The interner on its own: a client makes any StringId::new calls;        *)
(* interned is the history of the calls, [string, id] each.                *)
(***************************************************************************)

MaxInternCalls == 4

InternStrings == { <<>>, <<"t">>, <<"t", "e", "s", "t">>, <<"t", "e", "s", "t", "2">> }

InitIntern ==
    /\ interner = <<>>
    /\ interned = <<>>
    /\ source = <<>>
    /\ cursor = Cursor_new
    /\ stream = <<>>
    /\ scanned = Idle
    /\ tcursor = None
    /\ got = NoCall
    /\ stack = <<>>
    /\ ret = Idle
    /\ parsed = Idle
    /\ threads = NoThreads
    /\ lazy = Uninit
    /\ returned = {}

Intern ==
    /\ Len(interned) < MaxInternCalls
    /\ \E s \in InternStrings :
          LET id == StringId_new(interner, s) IN
          /\ interner' = id.table
          /\ interned' = Append(interned, [string |-> s, id |-> id.key])
    /\ UNCHANGED <<source, cursor, stream, scanned, tcursor, got, stack, ret, parsed,
                 threads, lazy, returned>>

NextIntern == Intern

SpecIntern == InitIntern /\ [][NextIntern]_vars

-----------------------------------------------------------------------------
(***************************************************************************)
(* Threads that call StringId::new on the one static STRING_INTERNER.      *)
(* LazyLock runs its initialiser under a Once: the first thread to         *)
(* dereference it creates the ThreadedRodeo, and a thread that arrives     *)
(* meanwhile waits.  ThreadedRodeo::get_or_intern first looks the string   *)
(* up and, on a miss, takes the entry of the map under its lock, where it  *)
(* looks again before it inserts; both are single steps here.              *)
(***************************************************************************)

MaxThreads == 2

Threads == 1..MaxThreads
ThreadStrings == { <<"t", "e", "s", "t">>, <<"t", "e", "s", "t", "2">> }

InitThreads ==
    /\ source = <<>>
    /\ cursor = Cursor_new
    /\ stream = <<>>
    /\ scanned = Idle
    /\ interner = <<>>
    /\ interned = <<>>
    /\ tcursor = None
    /\ got = NoCall
    /\ stack = <<>>
    /\ ret = Idle
    /\ parsed = Idle
    /\ threads = [t \in Threads |-> [pc |-> "idle", string |-> <<>>, key |-> 0]]
    /\ lazy = Uninit
    /\ returned = {}

ThreadsOnly ==
    UNCHANGED <<source, cursor, stream, scanned, interned, tcursor, got, stack, ret, parsed>>

(* a thread enters StringId::new(string) *)
StringId_new_call(t) ==
    /\ threads[t].pc = "idle"
    /\ \E s \in ThreadStrings :
          threads' = [threads EXCEPT ![t] = [pc |-> "deref", string |-> s, key |-> 0]]
    /\ UNCHANGED <<interner, lazy, returned>>
    /\ ThreadsOnly

(* the dereference of STRING_INTERNER with an initialiser that is not
   guarded by a Once: every thread that finds it not yet created creates it *)
LazyLock_force_Unguarded(t) ==
    /\ threads[t].pc = "deref"
    /\ IF lazy.state = "Init"
       THEN threads' = [threads EXCEPT ![t].pc = "get"] /\ lazy' = lazy
       ELSE threads' = [threads EXCEPT ![t].pc = "init"]
            /\ lazy' = [lazy EXCEPT !.state = "Running"]
    /\ UNCHANGED <<interner, returned>>
    /\ ThreadsOnly

(* the dereference of STRING_INTERNER: LazyLock::force *)
LazyLock_force(t) ==
    /\ threads[t].pc = "deref"
    /\ lazy.state # "Running"
    /\ IF lazy.state = "Init"
       THEN threads' = [threads EXCEPT ![t].pc = "get"] /\ lazy' = lazy
       ELSE threads' = [threads EXCEPT ![t].pc = "init"]
            /\ lazy' = [lazy EXCEPT !.state = "Running"]
    /\ UNCHANGED <<interner, returned>>
    /\ ThreadsOnly

(* the initialiser: Arc::new(ThreadedRodeo::new()) *)
LazyLock_init(t) ==
    /\ threads[t].pc = "init"
    /\ interner' = <<>>
    /\ lazy' = [state |-> "Init", created |-> lazy.created + 1]
    /\ threads' = [threads EXCEPT ![t].pc = "get"]
    /\ UNCHANGED returned
    /\ ThreadsOnly

(* get_or_intern: the lookup *)
ThreadedRodeo_get(t) ==
    /\ threads[t].pc = "get"
    /\ IF \E k \in 1..Len(interner) : interner[k] = threads[t].string
       THEN threads' = [threads EXCEPT ![t].pc = "return",
                                       ![t].key = KeyOf(interner, threads[t].string)]
       ELSE threads' = [threads EXCEPT ![t].pc = "entry"]
    /\ UNCHANGED <<interner, lazy, returned>>
    /\ ThreadsOnly

(* get_or_intern: the entry of the map, taken after a miss *)
ThreadedRodeo_entry(t) ==
    /\ threads[t].pc = "entry"
    /\ LET id == get_or_intern(interner, threads[t].string) IN
       /\ interner' = id.table
       /\ threads' = [threads EXCEPT ![t].pc = "return", ![t].key = id.key]
    /\ UNCHANGED <<lazy, returned>>
    /\ ThreadsOnly

(* StringId::new returns StringId(key) *)
StringId_new_return(t) ==
    /\ threads[t].pc = "return"
    /\ returned' = returned \cup {[string |-> threads[t].string, id |-> threads[t].key]}
    /\ threads' = [threads EXCEPT ![t].pc = "idle"]
    /\ UNCHANGED <<interner, lazy>>
    /\ ThreadsOnly

NextThreads ==
    \E t \in Threads :
        \/ StringId_new_call(t)
        \/ LazyLock_force(t)
        \/ LazyLock_init(t)
        \/ ThreadedRodeo_get(t)
        \/ ThreadedRodeo_entry(t)
        \/ StringId_new_return(t)

SpecThreads == InitThreads /\ [][NextThreads]_vars

-----------------------------------------------------------------------------
(* The claims *)

Last(s) == s[Len(s)]
ParseEnded == parsed.type \in {"Ok", "Err", "Panic"}

(* C1: whenever scan returns Ok(stream), the stream is non-empty, its last token
   is EndOfFile and no earlier token is; for the empty source the stream is
   exactly one EndOfFile at line 1, column 0, byte 0. *)
C1_StreamEndsInEndOfFile ==
    scanned.type = "Ok" =>
        /\ scanned.stream # <<>>
        /\ Last(scanned.stream).type = "EndOfFile"
        /\ \A i \in 1..(Len(scanned.stream) - 1) : scanned.stream[i].type # "EndOfFile"
        /\ source = <<>> =>
              scanned.stream = <<[type |-> "EndOfFile",
                                  location |-> [line |-> 1, column |-> 0, index |-> 0]]>>

C1_Witness == scanned.type = "Ok" /\ Len(scanned.stream) >= 3

(* C2: parse terminates on every token stream, also when a primary expression
   is followed by an operator token that has no binary-operator kind. *)
C2_ParseTerminates == <>ParseEnded

(* C3: after k calls of next on the cursor of a stream of n tokens, peek and
   next return the closing EndOfFile whenever k >= n - 1, and never fail. *)
C3_SaturatesAtEndOfFile ==
    (got.call \in {"peek", "next"} /\ got.at >= Len(stream) - 1) =>
        got.result = [type |-> "Ok", token |-> Last(stream)]

(* C4: when after `[` and its elements the next token is neither `,` nor `]`,
   parse returns a ParseError carrying that token: it never returns Ok and
   never fails in another way. *)
C4_UnclosedListIsParseError ==
    ParseEnded =>
    \A u \in UnclosedLists :
        stream = StreamOf(u.elements \o u.rest) =>
            /\ parsed.type = "Err"
            /\ parsed.error.type \in {"ExpectedExpression", "ExpectedPunctuation"}
            /\ parsed.error.got = stream[Len(u.elements) + 1]

(* C5: scan returns a value, a token stream or a ScanError, for every source
   text: no run of numeric characters makes it abort. *)
C5_ScanReturnsAValue == scanned.type # "Panic"

(* C6: with Assign = 1 < Plus = Minus = 2 < Star = Slash = 3, the tokens
   x op1 y op2 z parse to (x op1 y) op2 z when op2 binds no tighter than op1
   and to x op1 (y op2 z) when it binds tighter; a parenthesised expression is
   one operand, so a + 2 * (3 + b) - 3 is ((a + (2 * (3 + b))) - 3). *)
ClaimedPrecedence(l) == CASE l = "=" -> 1 [] l \in {"+", "-"} -> 2 [] l \in {"*", "/"} -> 3
ClaimedKind(l) ==
    CASE l = "=" -> "Assign" [] l = "+" -> "Plus" [] l = "-" -> "Minus"
      [] l = "*" -> "Star" [] l = "/" -> "Slash"
Operand(token) ==
    IF token.type = "Identifier"
    THEN [type |-> "Identifier", name |-> token.name, span |-> token.span]
    ELSE [type |-> "Integer", value |-> token.value, span |-> token.span]
Binary(l, token, left, right) ==
    [type |-> "Binary", operator |-> [kind |-> ClaimedKind(l), span |-> token.span],
     left |-> left, right |-> right]
OneExpression(e) == [type |-> "Ok", value |-> <<[type |-> "Expression", expression |-> e]>>]
ParenExample == <<"a", "+", "2", "*", "(", "3", "+", "b", ")", "-", "3">>

C6_PrecedenceAndAssociativity ==
    (ParseEnded /\ Len(stream) >= 6 /\ stream[1].type = "Identifier") =>
    /\ \A op1 \in BinaryLexemes, op2 \in BinaryLexemes :
          LET s == StreamOf(<<"a", op1, "b", op2, "c">>) IN
          stream = s =>
              parsed = OneExpression(
                  IF ClaimedPrecedence(op2) <= ClaimedPrecedence(op1)
                  THEN Binary(op2, s[4], Binary(op1, s[2], Operand(s[1]), Operand(s[3])),
                              Operand(s[5]))
                  ELSE Binary(op1, s[2], Operand(s[1]),
                              Binary(op2, s[4], Operand(s[3]), Operand(s[5]))))
    /\ LET s == StreamOf(ParenExample) IN
       stream = s =>
           parsed = OneExpression(
               Binary("-", s[10],
                      Binary("+", s[2], Operand(s[1]),
                             Binary("*", s[4], Operand(s[3]),
                                    Binary("+", s[7], Operand(s[6]), Operand(s[8])))),
                      Operand(s[11])))

C6_Witness == stream = StreamOf(<<"a", "=", "b", "*", "c">>) /\ parsed.type = "Ok"

(* C7: a Bool token in expression position is a primary expression: the tokens
   of `play true` parse to one Play statement whose expression is Bool(true). *)
C7_BoolIsPrimary ==
    /\ (stream = StreamOf(<<"play", "true">>) /\ ParseEnded) =>
          parsed = [type |-> "Ok",
                    value |-> <<[type |-> "Play",
                                 expression |-> [type |-> "Bool", value |-> TRUE,
                                                 span |-> stream[2].span]]>>]
    /\ (stream = StreamOf(<<"true">>) /\ ParseEnded) =>
          parsed = OneExpression([type |-> "Bool", value |-> TRUE, span |-> stream[1].span])

(* C8: parse of a token stream that is empty or whose last token is not
   EndOfFile returns Err(InvalidTokenStream) without reading any token (it
   never holds a cursor); parse of a stream whose last token is EndOfFile
   never returns InvalidTokenStream. *)
EndsInEndOfFile(s) == s # <<>> /\ Last(s).type = "EndOfFile"

C8_InvalidTokenStream ==
    IF EndsInEndOfFile(stream)
    THEN ~(parsed.type = "Err" /\ parsed.error.type = "InvalidTokenStream")
    ELSE /\ tcursor = <<>>
         /\ ParseEnded => (parsed.type = "Err" /\ parsed.error.type = "InvalidTokenStream")

C8_Witness ==
    /\ stream # <<>>
    /\ ~EndsInEndOfFile(stream)
    /\ parsed.type = "Err"

(* C9: after any sequence of intern calls, the ids of two interned strings are
   equal if and only if the strings are. *)
C9_EqualIdsIffEqualStrings ==
    \A i \in 1..Len(interned), j \in 1..Len(interned) :
        (interned[i].id = interned[j].id) <=> (interned[i].string = interned[j].string)

C9_Witness ==
    \E i \in 1..Len(interned), j \in 1..Len(interned), k \in 1..Len(interned) :
        /\ i < j /\ j < k
        /\ interned[i].string = interned[k].string
        /\ interned[i].string # interned[j].string

(* C10: resolve(intern(s)) = s, and it stays so after any later intern calls. *)
C10_ResolveReturnsContent ==
    \A i \in 1..Len(interned) :
        StringId_resolve(interner, interned[i].id) = interned[i].string

C10_Witness ==
    /\ Len(interned) >= 3
    /\ Len(interner) >= 3
    /\ StringId_resolve(interner, interned[1].id) = interned[1].string

(* C11: when several threads call intern on the shared table in any
   interleaving, calls with the same content return the same id, calls with
   different content return different ids, and the table is created exactly
   once, on the first call, even when the first calls race. *)
C11_ConcurrentIntern ==
    /\ \A x \in returned, y \in returned : (x.id = y.id) <=> (x.string = y.string)
    /\ \A t \in DOMAIN threads, u \in DOMAIN threads :
          (threads[t].pc = "return" /\ threads[u].pc = "return") =>
              ((threads[t].key = threads[u].key) <=> (threads[t].string = threads[u].string))
    /\ lazy.created <= 1
    /\ (\E t \in DOMAIN threads : threads[t].pc \in {"get", "entry", "return"}) =>
          lazy.created = 1
    /\ returned # {} => lazy.created = 1

(* two threads that both missed the lookup of the same string, after a string
   was returned *)
C11_Witness ==
    /\ returned # {}
    /\ \E t \in DOMAIN threads, u \in DOMAIN threads :
          /\ t # u
          /\ threads[t].pc = "entry" /\ threads[u].pc = "entry"
          /\ threads[t].string = threads[u].string


(* the number of bytes of a text, and the number of characters of the source
   that lie before a byte offset *)
RECURSIVE Utf8Len(_)
Utf8Len(s) ==
    IF s = <<>> THEN 0
    ELSE (IF Head(s) = "€" THEN 3 ELSE IF Head(s) \in {"é", "²"} THEN 2 ELSE 1) + Utf8Len(Tail(s))
CharsBefore(src, byte) == CHOOSE k \in 0..Len(src) : Utf8Len(SubSeq(src, 1, k)) = byte

(* the tokens scan has pushed, each with the characters of the source it covers *)
FirstChar(token) ==
    IF token.type = "EndOfFile" THEN <<>>
    ELSE SubSeq(source, CharsBefore(source, token.span.start.index) + 1,
                CharsBefore(source, token.span.start.index) + 1)
Lexeme(token) ==
    SubSeq(source, CharsBefore(source, token.span.start.index) + 1,
           CharsBefore(source, token.span.end.index))

(* C12: starting at a digit or `.`, the scanner consumes the longest run of
   digits with at most one `.`: the run `.` becomes Punctuator(Dot), a run
   without `.` becomes Integer, any other run becomes Float; a second `.` is
   left for the next token.  So `3 3.2.` scans to Integer(3) at bytes 0..1,
   Float(3.2) at 2..5, Punctuator(Dot) at 5..6 and EndOfFile at byte 6. *)
RECURSIVE ClaimedNumberRun(_, _, _)
ClaimedNumberRun(src, k, seen_dot) ==
    IF k > Len(src) THEN k - 1
    ELSE IF src[k] \in {"0", "1", "2", "3", "4", "5", "6", "7", "8", "9"}
    THEN ClaimedNumberRun(src, k + 1, seen_dot)
    ELSE IF src[k] = "." /\ ~seen_dot THEN ClaimedNumberRun(src, k + 1, TRUE)
    ELSE k - 1

At(line, column, index) == [line |-> line, column |-> column, index |-> index]

(* where the token starts that scan was at when it aborted *)
AbortedAt ==
    SkipTrivia(source,
               IF stream = <<>> THEN Cursor_new
               ELSE [input |-> CharsBefore(source, stream[Len(stream)].span.end.index),
                     location |-> stream[Len(stream)].span.end]).input + 1

C12_NumberOrDot ==
    /\ scanned.type = "Panic" =>
          source[AbortedAt] \notin {"0", "1", "2", "3", "4", "5", "6", "7", "8", "9", "."}
    /\ \A i \in 1..Len(stream) :
          LET token == stream[i]
              first == FirstChar(token)
          IN  (first # <<>> /\ first[1] \in {"0", "1", "2", "3", "4", "5", "6", "7", "8", "9", "."}) =>
                 LET from == CharsBefore(source, token.span.start.index) + 1
                     run == SubSeq(source, from, ClaimedNumberRun(source, from, FALSE))
                 IN  /\ Lexeme(token) = run
                     /\ IF run = <<".">>
                        THEN token.type = "Punctuator" /\ token.punctuator = "Dot"
                        ELSE IF \A k \in 1..Len(run) : run[k] # "."
                        THEN token.type = "Integer"
                        ELSE token.type = "Float"
    /\ (source = <<"3", " ", "3", ".", "2", ".">> /\ scanned.type \notin {"Running", "Idle"}) =>
          /\ scanned.type = "Ok"
          /\ scanned.stream =
                << [type |-> "Integer", value |-> <<3>>,
                    span |-> [start |-> At(1, 0, 0), end |-> At(1, 1, 1)]],
                   [type |-> "Float", value |-> [int |-> <<3>>, frac |-> <<2>>],
                    span |-> [start |-> At(1, 2, 2), end |-> At(1, 5, 5)]],
                   [type |-> "Punctuator", punctuator |-> "Dot",
                    span |-> [start |-> At(1, 5, 5), end |-> At(1, 6, 6)]],
                   [type |-> "EndOfFile", location |-> At(1, 6, 6)] >>

(* the tokens of C12 on every source on which scan does not abort *)
NumberOrDotUnlessAborted == scanned.type = "Panic" \/ C12_NumberOrDot

(* C13: starting at an alphabetic character or `_`, the scanner consumes the
   longest run of alphanumeric characters and `_` and classifies the whole run
   by exact match: the six keywords give Keyword tokens, `true` and `false`
   give Bool, and every other run gives an Identifier whose id resolves to
   exactly the run.  So `wait time` scans to Keyword(Wait), Identifier(time),
   EndOfFile. *)
RECURSIVE ClaimedNameRun(_, _)
ClaimedNameRun(src, k) ==
    IF k > Len(src) THEN k - 1
    ELSE IF is_alphanumeric(src[k]) \/ src[k] = "_" THEN ClaimedNameRun(src, k + 1)
    ELSE k - 1

ClaimedKeywords ==
    { <<<<"w", "i", "t", "h">>, "With">>, <<<<"w", "a", "i", "t">>, "Wait">>,
      <<<<"s", "e", "q", "u", "e", "n", "c", "e">>, "Sequence">>,
      <<<<"p", "l", "a", "y">>, "Play">>, <<<<"l", "e", "t">>, "Let">>,
      <<<<"l", "o", "a", "d", "_", "s", "a", "m", "p", "l", "e">>, "LoadSample">> }

C13_NamesAndKeywords ==
    /\ \A i \in 1..Len(stream) :
          LET token == stream[i]
              first == FirstChar(token)
          IN  (first # <<>> /\ (is_alphabetic(first[1]) \/ first[1] = "_")) =>
                 LET from == CharsBefore(source, token.span.start.index) + 1
                     run == SubSeq(source, from, ClaimedNameRun(source, from))
                 IN  /\ Lexeme(token) = run
                     /\ IF \E kw \in ClaimedKeywords : kw[1] = run
                        THEN /\ token.type = "Keyword"
                             /\ <<run, token.keyword>> \in ClaimedKeywords
                        ELSE IF run = <<"t", "r", "u", "e">>
                        THEN token.type = "Bool" /\ token.value = TRUE
                        ELSE IF run = <<"f", "a", "l", "s", "e">>
                        THEN token.type = "Bool" /\ token.value = FALSE
                        ELSE /\ token.type = "Identifier"
                             /\ token.name \in 1..Len(interner)
                             /\ interner[token.name] = run
    /\ (source = <<"w", "a", "i", "t", " ", "t", "i", "m", "e">> /\ scanned.type # "Running") =>
          /\ scanned.type = "Ok"
          /\ Len(scanned.stream) = 3
          /\ scanned.stream[1] = [type |-> "Keyword", keyword |-> "Wait",
                                  span |-> [start |-> At(1, 0, 0), end |-> At(1, 4, 4)]]
          /\ scanned.stream[2].type = "Identifier"
          /\ scanned.stream[2].span = [start |-> At(1, 5, 5), end |-> At(1, 9, 9)]
          /\ interner[scanned.stream[2].name] = <<"t", "i", "m", "e">>
          /\ scanned.stream[3] = [type |-> "EndOfFile", location |-> At(1, 9, 9)]

(* `let wité` has been scanned: a keyword, then an identifier with a two-byte
   character *)
C13_Witness ==
    /\ scanned.type = "Ok"
    /\ Len(scanned.stream) = 3
    /\ scanned.stream[1].type = "Keyword"
    /\ scanned.stream[2].type = "Identifier"
    /\ interner[scanned.stream[2].name] = <<"w", "i", "t", "é">>

(* the location after the text p: line 1 + the line breaks of p, column the
   characters after the last line break, index the bytes of p *)
LastBreak(p) == IF \E i \in 1..Len(p) : p[i] = "\n"
                THEN CHOOSE i \in 1..Len(p) : p[i] = "\n" /\ \A j \in (i + 1)..Len(p) : p[j] # "\n"
                ELSE 0
LocationAfter(p) ==
    [line |-> 1 + Cardinality({i \in 1..Len(p) : p[i] = "\n"}),
     column |-> Len(p) - LastBreak(p),
     index |-> Utf8Len(p)]

(* C14: if a `"` opens a string literal and the end of input is reached before
   an unescaped closing `"` (also when the input ends directly after a
   backslash, or the only later quotes are escaped), scan returns
   Err(UnterminatedString) whose span runs from the opening quote to the end
   of input, and returns no token stream. *)
RECURSIVE ClaimedStringEnd(_, _)
ClaimedStringEnd(src, k) ==
    IF k > Len(src) THEN "EndOfInput"
    ELSE IF src[k] = "\\"
    THEN IF k + 1 > Len(src) THEN "EndOfInput"
         ELSE IF src[k + 1] \in {"n", "t", "r", "\"", "\\"} THEN ClaimedStringEnd(src, k + 2)
         ELSE "InvalidEscape"
    ELSE IF src[k] = "\"" THEN "Closed"
    ELSE ClaimedStringEnd(src, k + 1)

C14_UnterminatedString ==
    /\ (scanned.type \in {"Err", "Panic"} /\ source[AbortedAt] = "\""
            /\ ClaimedStringEnd(source, AbortedAt + 1) = "EndOfInput") =>
          scanned = [type |-> "Err",
                     error |-> [type |-> "UnterminatedString",
                                span |-> [start |-> LocationAfter(SubSeq(source, 1, AbortedAt - 1)),
                                          end |-> LocationAfter(source)]]]
    /\ scanned.type = "Ok" =>
          \A i \in 1..Len(scanned.stream) :
              FirstChar(scanned.stream[i]) = <<"\"">> =>
                  ClaimedStringEnd(source,
                      CharsBefore(source, scanned.stream[i].span.start.index) + 2) = "Closed"

(* an unterminated string in a source with an escaped quote *)
C14_Witness ==
    /\ scanned.type = "Err"
    /\ scanned.error.type = "UnterminatedString"
    /\ \E k \in 2..Len(source) : source[k - 1] = "\\" /\ source[k] = "\""

(* C15: a with statement needs at least one property; for `with p1, ..., pn {`
   and for `with p1, ..., pn, {` parse yields one With statement with exactly
   the n properties in source order, each `identifier : expression`; so
   `with a: 3, b: 4, {}` has the two properties a -> Integer 3, b -> Integer 4
   and an empty block; `with` directly followed by `{` yields
   ExpectedIdentifier. *)
C15_WithStatement ==
    (ParseEnded /\ stream # <<>> /\ is_keyword(stream[1], "With")) =>
    /\ \A n \in 1..MaxProperties, trailing \in BOOLEAN :
          stream = StreamOf(WithLexemes(n, trailing)) =>
              parsed =
                 [type |-> "Ok",
                  value |->
                     << [type |-> "With",
                         properties |->
                            [i \in 1..n |->
                                [name |-> [name |-> stream[4 * i - 2].name,
                                           span |-> stream[4 * i - 2].span],
                                 value |-> Operand(stream[4 * i])]],
                         block |->
                            [statements |-> <<>>,
                             span |-> [start |-> stream[Len(stream) - 2].span.start,
                                       end |-> stream[Len(stream) - 1].span.end]]] >>]
    /\ stream = StreamOf(<<"with", "a", ":", "3", ",", "b", ":", "4", ",", "{", "}">>) =>
          /\ parsed.type = "Ok"
          /\ Len(parsed.value) = 1
          /\ Len(parsed.value[1].properties) = 2
          /\ parsed.value[1].properties[1].name.name = 1
          /\ parsed.value[1].properties[1].value.type = "Integer"
          /\ parsed.value[1].properties[1].value.value = <<3>>
          /\ parsed.value[1].properties[2].name.name = 2
          /\ parsed.value[1].properties[2].value.type = "Integer"
          /\ parsed.value[1].properties[2].value.value = <<4>>
          /\ parsed.value[1].block.statements = <<>>
    /\ stream = StreamOf(<<"with", "{", "}">>) =>
          parsed = [type |-> "Err",
                    error |-> [type |-> "ExpectedIdentifier", got |-> stream[2]]]

C15_Witness ==
    /\ stream = StreamOf(<<"with", "a", ":", "3", ",", "b", ":", "4", ",", "{", "}">>)
    /\ parsed.type = "Ok"

(* C16: for a list literal closed by `]`, the List node has exactly one
   element per element expression, in source order, whatever EndOfLine tokens
   stand after `[`, after an element or after a comma, and with or without one
   trailing comma before `]`; `[]` gives an empty list and `[1,\n2,]` a list of
   two; the span of the node runs from the start of `[` to the end of `]`. *)
C16_ListLiteral ==
    (ParseEnded /\ stream # <<>> /\ stream[1].type = "Punctuator") =>
    \A x \in ClosedLists :
        stream = StreamOf(ListLexemes(x)) =>
            LET elements == SelectSeq(stream, LAMBDA token : token.type = "Integer") IN
            /\ Len(elements) = x.n
            /\ parsed =
                  OneExpression(
                     [type |-> "List",
                      expressions |-> [i \in 1..x.n |-> Operand(elements[i])],
                      span |-> [start |-> stream[1].span.start,
                                end |-> stream[Len(stream) - 1].span.end]])

(* C17: when parse returns Ok(statements), the statements are in source
   order: each covers a contiguous range of tokens, the start byte offsets of
   successive statements are strictly increasing, and the range of statement
   i ends at or before the start of statement i + 1.  The range of a statement
   is read off its nodes: from its first identifier or expression to the end
   of its last expression or block. *)
StatementStart(st) ==
    CASE st.type \in {"Play", "Wait", "Expression"} -> Expression_span(st.expression).start
      [] st.type \in {"Let", "Sequence"} -> st.name.span.start
      [] st.type = "With" -> st.properties[1].name.span.start
StatementEnd(st) ==
    CASE st.type \in {"Play", "Wait", "Expression"} -> Expression_span(st.expression).end
      [] st.type = "Let" -> Expression_span(st.value).end
      [] st.type \in {"Sequence", "With"} -> st.block.span.end

C17_StatementsInSourceOrder ==
    parsed.type = "Ok" =>
        /\ \A i \in 1..Len(parsed.value) :
              /\ StatementStart(parsed.value[i]).index < StatementEnd(parsed.value[i]).index
              /\ \E j \in 1..(Len(stream) - 1), k \in 1..(Len(stream) - 1) :
                    /\ j <= k
                    /\ stream[j].span.start = StatementStart(parsed.value[i])
                    /\ stream[k].span.end = StatementEnd(parsed.value[i])
        /\ \A i \in 1..(Len(parsed.value) - 1) :
              /\ StatementStart(parsed.value[i]).index < StatementStart(parsed.value[i + 1]).index
              /\ StatementEnd(parsed.value[i]).index <= StatementStart(parsed.value[i + 1]).index

C17_Witness ==
    /\ parsed.type = "Ok"
    /\ Len(parsed.value) >= 3
    /\ parsed.value[1].type = "Expression"
    /\ parsed.value[2].type = "Expression"

(* C18: after the character cursor has consumed a prefix p of the source by
   next() calls, location() has byte_index = the UTF-8 byte length of p,
   line = 1 + the number of newlines in p, and column = the number of
   characters of p after its last newline (all of p if it has none); peek()
   never changes the location, and next() at the end of the input returns
   None and leaves the location unchanged. *)
C18_CursorLocation ==
    /\ cursor.input \in 0..Len(source)
    /\ cursor.location = LocationAfter(SubSeq(source, 1, cursor.input))
    /\ got.call = "peek" => cursor = got.at
    /\ got.call = "next" =>
          IF got.at.input = Len(source)
          THEN got.result = None /\ cursor = got.at
          ELSE got.result = Some(source[got.at.input + 1]) /\ cursor.input = got.at.input + 1

C18_Witness ==
    /\ got.call = "next"
    /\ got.result = None
    /\ cursor.location = Location_new(2, 2, 6)

(* C19: operator scanning uses exactly one character of lookahead: `-=`, `+=`
   and `==` are each scanned as one two-byte Operator token (MinusEq, PlusEq,
   Eq); `-`, `+`, `=` followed by any other character or by the end of the
   input are scanned as the one-byte Operators Minus, Plus, Assign without
   consuming the following character; `*` and `/` are always one-byte
   Operators, so `*=` is Star then Assign. *)
ClaimedOperator(c, follow) ==
    CASE c = "-" -> IF follow = <<"=">> THEN "MinusEq" ELSE "Minus"
      [] c = "+" -> IF follow = <<"=">> THEN "PlusEq" ELSE "Plus"
      [] c = "=" -> IF follow = <<"=">> THEN "Eq" ELSE "Assign"
      [] c = "*" -> "Star"
      [] c = "/" -> "Slash"
ClaimedOperatorLen(c, follow) ==
    IF c \in {"-", "+", "="} /\ follow = <<"=">> THEN 2 ELSE 1
TokenStart(token) == IF token.type = "EndOfFile" THEN token.location ELSE token.span.start

C19_OperatorLookahead ==
    /\ scanned.type \in {"Err", "Panic"} => source[AbortedAt] \notin {"-", "+", "=", "*", "/"}
    /\ \A i \in 1..Len(stream) :
          FirstChar(stream[i]) \in {<<"-">>, <<"+">>, <<"=">>, <<"*">>, <<"/">>} =>
              LET k == CharsBefore(source, stream[i].span.start.index) + 1
                  follow == IF k < Len(source) THEN <<source[k + 1]>> ELSE <<>>
                  n == ClaimedOperatorLen(source[k], follow)
              IN  /\ stream[i] =
                        [type |-> "Operator",
                         operator |-> ClaimedOperator(source[k], follow),
                         span |-> [start |-> LocationAfter(SubSeq(source, 1, k - 1)),
                                   end |-> LocationAfter(SubSeq(source, 1, k - 1 + n))]]
                  /\ (i < Len(stream) /\ k + n <= Len(source)
                          /\ source[k + n] \notin {" ", "\t", "\r", "#"}) =>
                        TokenStart(stream[i + 1]) = stream[i].span.end
    /\ (source = <<"*", "=">> /\ scanned.type = "Ok") =>
          /\ Len(scanned.stream) = 3
          /\ scanned.stream[1].type = "Operator" /\ scanned.stream[1].operator = "Star"
          /\ scanned.stream[2].type = "Operator" /\ scanned.stream[2].operator = "Assign"
          /\ scanned.stream[3].type = "EndOfFile"

(* `+` before `-=`: a one-byte operator whose following character starts the
   next token, then a two-byte operator *)
C19_Witness ==
    /\ scanned.type = "Ok"
    /\ source = <<"+", "-", "=">>
    /\ scanned.stream[1].operator = "Plus"
    /\ scanned.stream[2].operator = "MinusEq"
    /\ scanned.stream[3].type = "EndOfFile"

(* C20: if the first character of a token is none of: newline, `"`,
   alphabetic, `_`, numeric, `.`, one of `{ } [ ] ( ) : ,`, or one of
   `- + * / =`, then scan returns Err(UnexpectedCharacter) carrying that
   character and a span covering exactly that character, and returns none of
   the tokens scanned before it; in particular `!` yields
   UnexpectedCharacter('!') with span byte 0..1. *)
ClaimedTokenStart(c) ==
    \/ c \in {"\n", "\"", "_", "."}
    \/ is_alphabetic(c)
    \/ is_numeric(c)
    \/ c \in {"{", "}", "[", "]", "(", ")", ":", ","}
    \/ c \in {"-", "+", "*", "/", "="}

C20_UnexpectedCharacter ==
    /\ (scanned.type \in {"Err", "Panic"} /\ ~ClaimedTokenStart(source[AbortedAt])) =>
          scanned = [type |-> "Err",
                     error |-> [type |-> "UnexpectedCharacter",
                                character |-> source[AbortedAt],
                                span |-> [start |-> LocationAfter(SubSeq(source, 1, AbortedAt - 1)),
                                          end |-> LocationAfter(SubSeq(source, 1, AbortedAt))]]]
    /\ \A i \in 1..Len(stream) :
          stream[i].type # "EndOfFile" => ClaimedTokenStart(FirstChar(stream[i])[1])
    /\ (source = <<"!">> /\ scanned.type # "Running") =>
          scanned = [type |-> "Err",
                     error |-> [type |-> "UnexpectedCharacter", character |-> "!",
                                span |-> [start |-> At(1, 0, 0), end |-> At(1, 1, 1)]]]

(* a character of three bytes that starts no token, after tokens were scanned *)
C20_Witness ==
    /\ scanned.type = "Err"
    /\ scanned.error.type = "UnexpectedCharacter"
    /\ scanned.error.character = "€"
    /\ scanned.error.span.end.index = scanned.error.span.start.index + 3
    /\ stream # <<>>

(* C21: for every span with start.byte_index <= end.byte_index, Span::len()
   returns the length of the span in bytes, end.byte_index - start.byte_index
   as an unsigned 32-bit value, so the span of a non-empty token has a
   positive length and len() never underflows. *)
C21_SpanLen ==
    got.call = "len" =>
        /\ got.result.type = "Ok"
        /\ got.result.value = <<0, got.span.end.index - got.span.start.index>>

(* what len does: 0 for an empty span; for a span of n > 0 bytes a panic or
   the wrapped value 2^32 - n *)
SpanLenUnderflows ==
    got.call = "len" =>
        LET n == got.span.end.index - got.span.start.index IN
        IF n = 0 THEN got.result = Ok(<<0, 0>>)
        ELSE got.result \in {[type |-> "Panic"], Ok(<<65535, 65536 - n>>)}

(* C22: for a terminated string literal the String token's content is the
   text between the quotes with each of the escapes \n, \t, \r, \", \\
   replaced by newline, tab, carriage return, quote, backslash and every
   other character (a raw newline too) kept as it is, and its span runs from
   the opening quote to just after the closing quote; a backslash followed by
   any other character makes scan return Err(InvalidEscapeSequence) carrying
   that character. *)
RECURSIVE ClaimedContent(_, _)
ClaimedContent(src, k) ==
    IF src[k] = "\"" THEN <<>>
    ELSE IF src[k] = "\\"
    THEN <<(CASE src[k + 1] = "n" -> "\n" [] src[k + 1] = "t" -> "\t"
              [] src[k + 1] = "r" -> "\r" [] src[k + 1] = "\"" -> "\""
              [] src[k + 1] = "\\" -> "\\")>> \o ClaimedContent(src, k + 2)
    ELSE <<src[k]>> \o ClaimedContent(src, k + 1)
RECURSIVE ClaimedClosingQuote(_, _)
ClaimedClosingQuote(src, k) ==
    IF src[k] = "\"" THEN k
    ELSE IF src[k] = "\\" THEN ClaimedClosingQuote(src, k + 2)
    ELSE ClaimedClosingQuote(src, k + 1)
RECURSIVE ClaimedInvalidEscape(_, _)
ClaimedInvalidEscape(src, k) ==
    IF src[k] = "\\"
    THEN IF src[k + 1] \in {"n", "t", "r", "\"", "\\"} THEN ClaimedInvalidEscape(src, k + 2)
         ELSE src[k + 1]
    ELSE ClaimedInvalidEscape(src, k + 1)

C22_StringLiteral ==
    /\ \A i \in 1..Len(stream) :
          (stream[i].type = "String" \/ FirstChar(stream[i]) = <<"\"">>) =>
              LET k == CharsBefore(source, stream[i].span.start.index) + 1 IN
              /\ source[k] = "\""
              /\ ClaimedStringEnd(source, k + 1) = "Closed"
              /\ stream[i].type = "String"
              /\ StringId_resolve(interner, stream[i].value) = ClaimedContent(source, k + 1)
              /\ stream[i].span =
                    [start |-> LocationAfter(SubSeq(source, 1, k - 1)),
                     end |-> LocationAfter(SubSeq(source, 1, ClaimedClosingQuote(source, k + 1)))]
    /\ (scanned.type \in {"Err", "Panic"} /\ source[AbortedAt] = "\""
            /\ ClaimedStringEnd(source, AbortedAt + 1) = "InvalidEscape") =>
          /\ scanned.type = "Err"
          /\ scanned.error.type = "InvalidEscapeSequence"
          /\ scanned.error.character = ClaimedInvalidEscape(source, AbortedAt + 1)
    /\ (scanned.type \in {"Err", "Panic"} /\ scanned.type = "Err"
            /\ scanned.error.type = "InvalidEscapeSequence") =>
          /\ source[AbortedAt] = "\""
          /\ ClaimedStringEnd(source, AbortedAt + 1) = "InvalidEscape"

(* the string of the scanner's test: escaped quotes, \n and \t in one literal *)
C22_Witness ==
    /\ scanned.type = "Ok"
    /\ Len(scanned.stream) = 2
    /\ scanned.stream[1].type = "String"
    /\ StringId_resolve(interner, scanned.stream[1].value) =
          <<"\"", "H", "e", "l", "l", "o", ",", "\n", " ", "\t", " ",
            "w", "o", "r", "l", "d", "\"">>
    /\ scanned.stream[1].span.end.index = 23

(* C23: each newline that is reached outside a comment and outside a string
   literal produces exactly one EndOfLine token spanning exactly that one
   byte, and other whitespace produces no token; a `#` comment is skipped up
   to and including its terminating newline, so a line that ends in a comment
   contributes no EndOfLine token: `a # c` newline `b` scans to
   [Identifier(a), Identifier(b), EndOfFile]. *)
RECURSIVE ClaimedLineBreaks(_, _, _)
ClaimedLineBreaks(src, k, in) ==
    IF k > Len(src) THEN {}
    ELSE IF in = "comment"
    THEN ClaimedLineBreaks(src, k + 1, IF src[k] = "\n" THEN "code" ELSE "comment")
    ELSE IF in = "string"
    THEN IF src[k] = "\\" THEN ClaimedLineBreaks(src, k + 2, "string")
         ELSE ClaimedLineBreaks(src, k + 1, IF src[k] = "\"" THEN "code" ELSE "string")
    ELSE IF src[k] = "\n" THEN {k} \cup ClaimedLineBreaks(src, k + 1, "code")
    ELSE ClaimedLineBreaks(src, k + 1,
             IF src[k] = "#" THEN "comment" ELSE IF src[k] = "\"" THEN "string" ELSE "code")

C23_LineBreaksAndComments ==
    /\ scanned.type = "Ok" =>
          LET lines == {i \in 1..Len(scanned.stream) : scanned.stream[i].type = "EndOfLine"} IN
          /\ {CharsBefore(source, scanned.stream[i].span.start.index) + 1 : i \in lines}
                = ClaimedLineBreaks(source, 1, "code")
          /\ Cardinality(lines) = Cardinality(ClaimedLineBreaks(source, 1, "code"))
          /\ \A i \in lines :
                /\ Lexeme(scanned.stream[i]) = <<"\n">>
                /\ scanned.stream[i].span.end.index = scanned.stream[i].span.start.index + 1
    /\ \A i \in 1..Len(stream) :
          /\ FirstChar(stream[i]) \notin {<<" ">>, <<"\t">>, <<"\r">>, <<"#">>}
          /\ stream[i].type = "EndOfLine" <=> FirstChar(stream[i]) = <<"\n">>
    /\ (source = <<"a", " ", "#", " ", "c", "\n", "b">> /\ scanned.type # "Running") =>
          /\ scanned.type = "Ok"
          /\ Len(scanned.stream) = 3
          /\ scanned.stream[1].type = "Identifier"
          /\ interner[scanned.stream[1].name] = <<"a">>
          /\ scanned.stream[2].type = "Identifier"
          /\ interner[scanned.stream[2].name] = <<"b">>
          /\ scanned.stream[3].type = "EndOfFile"

(* a source with a line break that ends a comment, one inside a string and
   one after the string: only the last gives an EndOfLine token *)
C23_Witness ==
    /\ scanned.type = "Ok"
    /\ source = <<"a", " ", "#", "\"", "\n", "\"", "#", "\n", "\"", "\n">>
    /\ Len(scanned.stream) = 4
    /\ scanned.stream[2].type = "String"
    /\ scanned.stream[3].type = "EndOfLine"

(* C24: inside an expression, any number of EndOfLine tokens directly after a
   binary operator are skipped and the expression continues with the right
   operand (`a +` newline `2` parses as Binary(+, a, 2)), whereas an EndOfLine
   directly before a binary operator ends the expression (`a` newline `+ 2`
   does not parse as Binary(+, a, 2)). *)
C24_LineBreakAroundOperator ==
    (ParseEnded /\ stream # <<>> /\ stream[1].type = "Identifier") =>
    /\ \A op \in BinaryLexemes, after \in 0..MaxBreaks :
          LET s == StreamOf(BrokenLexemes(op, 0, after)) IN
          (Len(stream) = after + 4 /\ stream = s) =>
              parsed = OneExpression(Binary(op, s[2], Operand(s[1]), Operand(s[Len(s) - 1])))
    /\ \A op1 \in BinaryLexemes, op2 \in BinaryLexemes :
          LET s == StreamOf(<<"a", op1, NL, "b", op2, NL, "c">>) IN
          (Len(stream) = 8 /\ stream = s) =>
              parsed = OneExpression(
                  IF ClaimedPrecedence(op2) <= ClaimedPrecedence(op1)
                  THEN Binary(op2, s[5], Binary(op1, s[2], Operand(s[1]), Operand(s[4])),
                              Operand(s[7]))
                  ELSE Binary(op1, s[2], Operand(s[1]),
                              Binary(op2, s[5], Operand(s[4]), Operand(s[7]))))
    /\ \A op \in BinaryLexemes, before \in 1..MaxBreaks, after \in 0..MaxBreaks :
          LET s == StreamOf(BrokenLexemes(op, before, after)) IN
          (Len(stream) = before + after + 4 /\ stream = s) =>
              /\ parsed # OneExpression(Binary(op, s[before + 2], Operand(s[1]),
                                               Operand(s[Len(s) - 1])))
              /\ parsed.type = "Ok" =>
                    parsed.value[1] = [type |-> "Expression", expression |-> Operand(s[1])]

(* `a +` and two line breaks and `2`, parsed to the end *)
C24_Witness ==
    /\ stream = StreamOf(<<"a", "+", NL, NL, "2">>)
    /\ parsed.type = "Ok"
    /\ parsed.value[1].expression.type = "Binary"

(* C25: a block is accepted only with matching braces: parse_block fails with
   ExpectedPunctuation(LeftBrace, got) if the next token is not `{`; otherwise
   it returns Ok only after consuming the `}` that matches that `{` (nested
   blocks close innermost first), with the statements between them in order,
   EndOfLine tokens ignored, and span from the start of `{` to the end of `}`;
   if EndOfFile is reached before the matching `}`, parse returns a
   ParseError. *)
IsBrace(token, punctuator) == token.type = "Punctuator" /\ token.punctuator = punctuator

(* the index of the `}` that closes the block open at depth, 0 if there is none *)
RECURSIVE MatchingBrace(_, _, _)
MatchingBrace(s, k, depth) ==
    IF k > Len(s) THEN 0
    ELSE IF IsBrace(s[k], "LeftBrace") THEN MatchingBrace(s, k + 1, depth + 1)
    ELSE IF IsBrace(s[k], "RightBrace")
    THEN IF depth = 1 THEN k ELSE MatchingBrace(s, k + 1, depth - 1)
    ELSE MatchingBrace(s, k + 1, depth)

RECURSIVE BlocksOf(_)
BlocksOf(statements) ==
    IF statements = <<>> THEN {}
    ELSE (IF Head(statements).type \in {"Sequence", "With"}
          THEN {Head(statements).block} \cup BlocksOf(Head(statements).block.statements)
          ELSE {})
         \cup BlocksOf(Tail(statements))

BlockMatches(block) ==
    \E j \in 1..Len(stream) :
        /\ IsBrace(stream[j], "LeftBrace")
        /\ stream[j].span.start = block.span.start
        /\ LET k == MatchingBrace(stream, j + 1, 1) IN
           /\ k # 0
           /\ stream[k].span.end = block.span.end
           /\ \A i \in 1..Len(block.statements) :
                 /\ stream[j].span.end.index <= StatementStart(block.statements[i]).index
                 /\ StatementEnd(block.statements[i]).index <= stream[k].span.start.index
           /\ \A i \in 1..(Len(block.statements) - 1) :
                 StatementEnd(block.statements[i]).index
                     <= StatementStart(block.statements[i + 1]).index
           /\ \A i \in (j + 1)..(k - 1) :
                 (stream[i].type \in {"Identifier", "Integer"}
                      \/ IsBrace(stream[i], "LeftBrace") \/ IsBrace(stream[i], "RightBrace")) =>
                     \E n \in 1..Len(block.statements) :
                         /\ StatementStart(block.statements[n]).index <= stream[i].span.start.index
                         /\ stream[i].span.end.index <= StatementEnd(block.statements[n]).index

BlocksMatch ==
    parsed.type = "Ok" =>
        /\ \A block \in BlocksOf(parsed.value) : BlockMatches(block)
        /\ Cardinality(BlocksOf(parsed.value))
              = Cardinality({j \in 1..Len(stream) : IsBrace(stream[j], "LeftBrace")})

BlockNeedsLeftBrace ==
    (Len(stream) >= 3 /\ stream[1].type = "Keyword" /\ stream[1].keyword = "Sequence"
        /\ stream[2].type = "Identifier" /\ ~IsBrace(stream[3], "LeftBrace")) =>
        parsed = [type |-> "Err",
                  error |-> [type |-> "ExpectedPunctuation", expected |-> "LeftBrace",
                             got |-> stream[3]]]

UnclosedBlockIsParseError ==
    (\E j \in 1..Len(stream) :
        IsBrace(stream[j], "LeftBrace") /\ MatchingBrace(stream, j + 1, 1) = 0) =>
        parsed.type = "Err"

BlockExample ==
    LET s == StreamOf(<<"sequence", "a", "{", NL, "play", "c", NL, "wait", "1", NL, "}">>) IN
    stream = s =>
        parsed = [type |-> "Ok",
                  value |-> <<[type |-> "Sequence",
                               name |-> [name |-> s[2].name, span |-> s[2].span],
                               block |-> [statements |->
                                              <<[type |-> "Play", expression |-> Operand(s[6])],
                                                [type |-> "Wait", expression |-> Operand(s[9])]>>,
                                          span |-> [start |-> s[3].span.start,
                                                    end |-> s[11].span.end]]]>>]

C25_MatchingBraces ==
    (ParseEnded /\ EndsInEndOfFile(stream)) =>
        /\ BlocksMatch
        /\ BlockNeedsLeftBrace
        /\ UnclosedBlockIsParseError
        /\ BlockExample

(* what holds: the same for every stream without a list literal *)
MatchingBracesWithoutLists ==
    (ParseEnded /\ EndsInEndOfFile(stream)
        /\ \A i \in 1..Len(stream) : ~IsBrace(stream[i], "LeftBracket")) =>
        /\ BlocksMatch
        /\ BlockNeedsLeftBrace
        /\ UnclosedBlockIsParseError
        /\ BlockExample

(* C26: a let statement is keyword, Identifier, `=`, expression, with any
   number of EndOfLine tokens allowed directly before and directly after the
   `=`: a non-identifier after `let` yields ExpectedIdentifier(got), a token
   other than the Assign operator where `=` is required yields
   ExpectedOperator(Assign, got), and the value is one full expression, so in
   `let a = b = c` the first `=` belongs to the statement and the second is
   parsed as a binary Assign inside the value. *)
RECURSIVE FirstAfterLines(_, _)
FirstAfterLines(s, k) == IF s[k].type = "EndOfLine" THEN FirstAfterLines(s, k + 1) ELSE k

ClaimedLet(s, value) ==
    [type |-> "Ok",
     value |-> <<[type |-> "Let", name |-> [name |-> s[2].name, span |-> s[2].span],
                  value |-> value]>>]

C26_LetStatement ==
    (ParseEnded /\ EndsInEndOfFile(stream) /\ stream[1].type = "Keyword"
        /\ stream[1].keyword = "Let") =>
    /\ stream[2].type # "Identifier" =>
          parsed = [type |-> "Err", error |-> [type |-> "ExpectedIdentifier", got |-> stream[2]]]
    /\ (stream[2].type = "Identifier"
            /\ LET q == stream[FirstAfterLines(stream, 3)]
               IN  ~(q.type = "Operator" /\ q.operator = "Assign")) =>
          parsed = [type |-> "Err",
                    error |-> [type |-> "ExpectedOperator", expected |-> "Assign",
                               got |-> stream[FirstAfterLines(stream, 3)]]]
    /\ \A before \in 0..MaxBreaks, after \in 0..MaxBreaks :
          LET v == before + after + 4 IN
          /\ LET s == StreamOf(LetLexemes(before, after, <<"3">>)) IN
             stream = s => parsed = ClaimedLet(s, Operand(s[v]))
          /\ LET s == StreamOf(LetLexemes(before, after, <<"3", "+", "2">>)) IN
             stream = s =>
                 parsed = ClaimedLet(s, Binary("+", s[v + 1], Operand(s[v]), Operand(s[v + 2])))
          /\ LET s == StreamOf(LetLexemes(before, after, <<"b", "=", "c">>)) IN
             stream = s =>
                 parsed = ClaimedLet(s, Binary("=", s[v + 1], Operand(s[v]), Operand(s[v + 2])))

(* let a, two line breaks, `=`, a line break, b = c *)
C26_Witness ==
    /\ stream = StreamOf(<<"let", "a", NL, NL, "=", NL, "b", "=", "c">>)
    /\ parsed.type = "Ok"
    /\ parsed.value[1].type = "Let"
    /\ parsed.value[1].value.type = "Binary"

(* C27: load_sample takes one full expression as operand, so it binds looser
   than every binary operator: the tokens of `load_sample a + b` parse to
   LoadSample(Binary(+, a, b)), not Binary(+, LoadSample(a), b), and the
   node's span runs from the start of the keyword to the end of the operand. *)
ClaimedLoadSample(token, sample, last) ==
    [type |-> "LoadSample", sample |-> sample,
     span |-> [start |-> token.span.start, end |-> last.span.end]]

C27_LoadSample ==
    (ParseEnded /\ EndsInEndOfFile(stream)
        /\ \E i \in 1..Len(stream) : is_keyword(stream[i], "LoadSample")) =>
    /\ \A op \in BinaryLexemes :
          LET s == StreamOf(<<"load_sample", "a", op, "b">>) IN
          stream = s =>
              parsed = OneExpression(
                  ClaimedLoadSample(s[1], Binary(op, s[3], Operand(s[2]), Operand(s[4])), s[4]))
    /\ \A op1 \in BinaryLexemes, op2 \in BinaryLexemes :
          LET s == StreamOf(<<"c", op1, "load_sample", "a", op2, "b">>) IN
          stream = s =>
              parsed = OneExpression(
                  Binary(op1, s[2], Operand(s[1]),
                         ClaimedLoadSample(s[3],
                                           Binary(op2, s[5], Operand(s[4]), Operand(s[6])),
                                           s[6])))
    /\ LET s == StreamOf(<<"load_sample", "a">>) IN
       stream = s => parsed = OneExpression(ClaimedLoadSample(s[1], Operand(s[2]), s[2]))
    /\ LET s == StreamOf(<<"load_sample", "load_sample", "a", "+", "b">>) IN
       stream = s =>
           parsed = OneExpression(
               ClaimedLoadSample(
                   s[1],
                   ClaimedLoadSample(s[2], Binary("+", s[4], Operand(s[3]), Operand(s[5])), s[5]),
                   s[5]))
    /\ LET s == StreamOf(<<"play", "load_sample", "a", "*", "b">>) IN
       stream = s =>
           parsed = [type |-> "Ok",
                     value |-> <<[type |-> "Play",
                                  expression |->
                                      ClaimedLoadSample(
                                          s[2], Binary("*", s[4], Operand(s[3]), Operand(s[5])),
                                          s[5])]>>]

(* `c * load_sample a + b` parsed to the end *)
C27_Witness ==
    /\ stream = StreamOf(<<"c", "*", "load_sample", "a", "+", "b">>)
    /\ parsed.type = "Ok"
    /\ parsed.value[1].expression.right.type = "LoadSample"
    /\ parsed.value[1].expression.right.sample.type = "Binary"

(* C28: in prefix position an operator token with a prefix kind (Exclamation)
   takes exactly one prefix-level operand, recursively, and binds tighter than
   every binary operator (the tokens `! ! a + b` parse to
   Binary(+, Prefix(Prefix(a)), b)); an operator token with no prefix kind in
   prefix position (for example `+` at the start of an expression) yields
   ExpectedExpression carrying that operator token. *)
ClaimedPrefix(token, operand) ==
    [type |-> "Prefix", operator |-> [kind |-> "Exclamation", span |-> token.span],
     operand |-> operand]
NotExpression(token) == [type |-> "Err", error |-> [type |-> "ExpectedExpression", got |-> token]]

C28_PrefixOperator ==
    (ParseEnded /\ EndsInEndOfFile(stream)
        /\ \E i \in 1..Len(stream) : stream[i].type = "Operator") =>
    /\ (stream[1].type = "Operator" /\ stream[1].operator # "Exclamation") =>
          parsed = NotExpression(stream[1])
    /\ \A op \in BinaryLexemes :
          LET s == StreamOf(<<"!", "!", "a", op, "b">>) IN
          (Len(stream) = 6 /\ stream = s) =>
              parsed = OneExpression(
                  Binary(op, s[4], ClaimedPrefix(s[1], ClaimedPrefix(s[2], Operand(s[3]))),
                         Operand(s[5])))
    /\ \A op1 \in BinaryLexemes, op2 \in BinaryLexemes :
          LET s == StreamOf(<<"a", op1, "!", "b", op2, "c">>) IN
          (Len(stream) = 7 /\ stream = s) =>
              parsed = OneExpression(
                  IF ClaimedPrecedence(op2) <= ClaimedPrecedence(op1)
                  THEN Binary(op2, s[5],
                              Binary(op1, s[2], Operand(s[1]), ClaimedPrefix(s[3], Operand(s[4]))),
                              Operand(s[6]))
                  ELSE Binary(op1, s[2], Operand(s[1]),
                              Binary(op2, s[5], ClaimedPrefix(s[3], Operand(s[4])),
                                     Operand(s[6]))))
    /\ \A op \in PrefixLexemes :
          /\ LET s == StreamOf(<<"a", "+", op, "b">>) IN
             (Len(stream) = 5 /\ stream = s) => parsed = NotExpression(s[3])
          /\ LET s == StreamOf(<<"!", op, "b">>) IN
             (Len(stream) = 4 /\ stream = s) => parsed = NotExpression(s[2])
    /\ LET s == StreamOf(<<"!", "!", "!", "1">>) IN
       stream = s =>
           parsed = OneExpression(
               ClaimedPrefix(s[1], ClaimedPrefix(s[2], ClaimedPrefix(s[3], Operand(s[4])))))

(* `! ! a + b` parsed to the end *)
C28_Witness ==
    /\ stream = StreamOf(<<"!", "!", "a", "+", "b">>)
    /\ parsed.type = "Ok"
    /\ parsed.value[1].expression.type = "Binary"
    /\ parsed.value[1].expression.left.operand.type = "Prefix"

(* C29: at top level parse skips every EndOfLine token before each statement
   and stops at EndOfFile: a stream of only EndOfLine tokens followed by
   EndOfFile (or EndOfFile alone) gives Ok with no statements, and consecutive
   statements need no EndOfLine between them (the tokens of `play c4 wait 1`
   give exactly two statements, Play(c4) then Wait(1)). *)
C29_TopLevel ==
    (ParseEnded /\ EndsInEndOfFile(stream)) =>
    /\ (\A i \in 1..(Len(stream) - 1) : stream[i].type = "EndOfLine") =>
          parsed = [type |-> "Ok", value |-> <<>>]
    /\ (\E i \in 1..Len(stream) : is_keyword(stream[i], "Play")) =>
          \A before \in 0..MaxBreaks, between \in 0..MaxBreaks, after \in 0..MaxBreaks :
              LET s == StreamOf(Breaks(before) \o <<"play", "c">> \o Breaks(between)
                                    \o <<"wait", "1">> \o Breaks(after))
              IN  stream = s =>
                      parsed = [type |-> "Ok",
                                value |-> <<[type |-> "Play",
                                             expression |-> Operand(s[before + 2])],
                                            [type |-> "Wait",
                                             expression |-> Operand(s[before + between + 4])]>>]

(* a line break, play c wait 1 with no line break in between, two line breaks *)
C29_Witness ==
    /\ stream = StreamOf(<<NL, "play", "c", "wait", "1", NL, NL>>)
    /\ parsed.type = "Ok"
    /\ Len(parsed.value) = 2

(* only line breaks *)
OnlyLineBreaks ==
    /\ stream = StreamOf(<<NL, NL, NL>>)
    /\ parsed = [type |-> "Ok", value |-> <<>>]

(* C30: in every token stream returned by scan, every token other than
   EndOfFile has a span with start.byte_index < end.byte_index (each scanned
   token consumes at least one character), the tokens are in source order with
   token i ending at or before the start of token i + 1, and the EndOfFile
   location's byte_index equals the byte length of the source. *)
C30_TokensInSourceOrder ==
    scanned.type = "Ok" =>
        LET s == scanned.stream
            n == Len(scanned.stream)
        IN  /\ \A i \in 1..(n - 1) :
                  /\ s[i].span.start.index < s[i].span.end.index
                  /\ s[i].span.end.index <= TokenStart(s[i + 1]).index
            /\ s[n].type = "EndOfFile"
            /\ s[n].location.index = Utf8Len(source)

(* `let wité`: a character of two bytes, whitespace between the tokens *)
C30_Witness ==
    /\ scanned.type = "Ok"
    /\ source = <<"l", "e", "t", " ", "w", "i", "t", "é">>
    /\ Len(scanned.stream) = 3
    /\ scanned.stream[3].location.index = 9

=============================================================================
